---- MODULE Spec2Model ----
(***************************************************************************)
(* Connection supervisor of the orderbook viewer (hook useOrderbookData):  *)
(* one WebSocket attempt per (venue, symbol) key, its connect timeout,     *)
(* heartbeat interval, reconnect timeout and synthetic-refresh interval,   *)
(* the shared registries (refs) and the React state the hook exposes.      *)
(* Time is abstracted: an armed timer may fire at any later step.          *)
(* SpecHeartbeat adds failing sends and the closing handshake, SpecMessages *)
(* feeds the message handler and the parser, SpecFunctions evaluates the    *)
(* synthetic generator, the symbol translation and the order estimator.     *)
(***************************************************************************)
EXTENDS Integers, Sequences, FiniteSets, TLC

VARIABLES venues, symbol, mounted, sockets, websockets, reconnectTimeouts,
          heartbeatIntervals, orderbooks, connectionStatus, error, closing, ev,
          call, sim

vars == <<venues, symbol, mounted, sockets, websockets, reconnectTimeouts,
          heartbeatIntervals, orderbooks, connectionStatus, error, closing, ev,
          call, sim>>

----------------------------------------------------------------------------
(* Bounds *)

\* Total number of connection attempts (calls of connectToVenue) explored.
MaxWs == 3

\* The same, where sends may throw and the closing handshake is followed.
MaxHbWs == 2

\* The same, where every armed timer is followed until it fires.
MaxRcWs == 2

\* The same, where the hook is called with two venues.
MaxVenueWs == 2

\* Longest side of a book message fed to the parser.
MaxLevels == 28

\* Calls of Math.random() whose value may differ from the general one.
MaxCall == 55

\* Calls of simulateOrder explored.
MaxSim == 3

\* Advances of the clock (half a capped delay each) explored.
MaxTicks == 3

----------------------------------------------------------------------------
(* Types *)

Venue == {"OKX", "Bybit", "Deribit"}

\* Two of the four supported symbols are enough to change the symbol.
Symbols == {"BTC-USD", "ETH-USD"}

\* The venue lists the hook is called with: one venue, or several.
OneVenue == <<"OKX">>

TwoVenues == <<"Bybit", "Deribit">>

ConnectionStatus == {"connected", "connecting", "disconnected", "error"}

NULL == [kind |-> "null"]

NoSymbol == "none"

\* The function called by the last step, with its arguments and result
\* (none while the connection supervisor runs).
NoCall == [fn |-> "none"]

\* The state of the simulation hook before any call: the clock (Date.now(),
\* counted from the mount), the calls of simulateOrder that wait for their
\* timer, orderMetrics, the orders returned so far, the number of calls, the
\* latest order request, the call made by the form while it waits (0: none)
\* and how the promise settled in the last step ended.
NoSim == [now |-> 0, waiting |-> <<>>, orderMetrics |-> NULL, orders |-> <<>>,
          calls |-> 0, latest |-> NULL, isSimulating |-> 0, settled |-> "none"]

\* const [selectedSymbol, setSelectedSymbol] = useState<Symbol>("BTC-USD")
InitialSymbol == "BTC-USD"

\* Codes a close event can carry: normal, going away, abnormal.
CloseCodes == {1000, 1001, 1006}

\* key = `${venue}-${symbol}`
Key(v, s) == <<v, s>>

\* `${key}-mock`
MockKey(v, s) == <<v, s, "mock">>

Keys == {Key(v, s) : v \in Venue, s \in Symbols}

MockKeys == {MockKey(v, s) : v \in Venue, s \in Symbols}

\* A synthetic book of getMockOrderbookForVenue(venue, symbol).
SyntheticBook(v, s) == [kind |-> "synthetic", venue |-> v, symbol |-> s]

\* The book parseOrderbookData returned for a frame of a (venue, symbol)
\* socket, as the Store holds it.
ParsedBook(v, s, ob) ==
    [kind |-> "parsed", venue |-> v, symbol |-> s, bids |-> ob.bids, asks |-> ob.asks]

\* setError message of ws.onerror.
ConnectionFailedMessage(v) == [venue |-> v, text |-> "connection failed. Using mock data for demonstration."]

\* One call of ws.send(msg); ok is false when the call threw.
Send(msg, throws) == [msg |-> msg, ok |-> ~throws]

Ids == 1..Len(sockets)

\* The mutable state connectToVenue and the handlers work on; out lists
\* the calls of ws.send the handler made, threw says that an exception left
\* the handler, did what the message handler called.
Cur == [sockets |-> sockets, websockets |-> websockets,
        reconnectTimeouts |-> reconnectTimeouts,
        heartbeatIntervals |-> heartbeatIntervals,
        orderbooks |-> orderbooks, connectionStatus |-> connectionStatus,
        error |-> error, out |-> <<>>, threw |-> FALSE, did |-> {}, delay |-> 0]

Commit(st) ==
    /\ sockets' = st.sockets
    /\ websockets' = st.websockets
    /\ reconnectTimeouts' = st.reconnectTimeouts
    /\ heartbeatIntervals' = st.heartbeatIntervals
    /\ orderbooks' = st.orderbooks
    /\ connectionStatus' = st.connectionStatus
    /\ error' = st.error

\* The last step taken: the event, the socket whose closure ran (0: none),
\* the close code, whether an error event preceded the close, the number of
\* attempts before the step, what the handler called (setConnectionStatus,
\* setOrderbooks, setError, connectToVenue, the timers it armed), its
\* calls of ws.send and the delay of the reconnect timeout it set (0: none).
Event(type, w, code, afterError, did) ==
    [type |-> type, ws |-> w, code |-> code, afterError |-> afterError,
     n |-> Len(sockets), did |-> did, sent |-> <<>>, delay |-> 0]

----------------------------------------------------------------------------
(* JavaScript values: strings are sequences of characters, numbers are      *)
(* integers (no input of the model has a fraction or an exponent)           *)

Digit == <<"0", "1", "2", "3", "4", "5", "6", "7", "8", "9">>

IsDigit(c) == \E d \in 1..10 : Digit[d] = c

DigitVal(c) == (CHOOSE d \in 1..10 : Digit[d] = c) - 1

\* String(n) of an integer.
RECURSIVE NumberToString(_)
NumberToString(n) ==
    IF n < 0 THEN <<"-">> \o NumberToString(0 - n)
    ELSE IF n < 10 THEN <<Digit[n + 1]>>
    ELSE NumberToString(n \div 10) \o <<Digit[(n % 10) + 1]>>

\* A value of the language: a string, a number, NaN or undefined.
JStr(chars) == [t |-> "str", s |-> chars, n |-> 0]

JNum(n) == [t |-> "num", s |-> <<>>, n |-> n]

NaN == [t |-> "nan", s |-> <<>>, n |-> 0]

Undefined == [t |-> "undef", s |-> <<>>, n |-> 0]

\* The number of digits a string starts with.
RECURSIVE LeadingDigits(_)
LeadingDigits(chars) ==
    IF chars # <<>> /\ IsDigit(Head(chars)) THEN 1 + LeadingDigits(Tail(chars)) ELSE 0

\* The value of a string of digits.
RECURSIVE DigitsValue(_)
DigitsValue(chars) ==
    IF chars = <<>> THEN 0
    ELSE 10 * DigitsValue(SubSeq(chars, 1, Len(chars) - 1)) + DigitVal(chars[Len(chars)])

\* The sign of a numeric string and what follows it.
Unsigned(chars) == IF chars # <<>> /\ chars[1] \in {"-", "+"} THEN Tail(chars) ELSE chars

Signed(chars, n) == IF chars # <<>> /\ chars[1] = "-" THEN 0 - n ELSE n

\* Number.parseFloat(x): the argument as a string, then its longest numeric
\* prefix; NaN when there is none.
parseFloat(x) ==
    LET chars == IF x.t = "str" THEN x.s ELSE IF x.t = "num" THEN NumberToString(x.n) ELSE <<"u">>
        body == Unsigned(chars)
        k == LeadingDigits(body)
    IN  IF k = 0 THEN NaN ELSE JNum(Signed(chars, DigitsValue(SubSeq(body, 1, k))))

\* ToNumber(x), the conversion the operator > applies: a string converts
\* only as a whole ("" to 0), undefined to NaN.
ToNumber(x) ==
    LET body == Unsigned(x.s)
    IN  CASE x.t = "num" -> x
          [] x.t = "str" /\ x.s = <<>> -> JNum(0)
          [] x.t = "str" /\ body # <<>> /\ LeadingDigits(body) = Len(body) ->
                 JNum(Signed(x.s, DigitsValue(body)))
          [] OTHER -> NaN

\* x > 0
GreaterThanZero(x) == LET v == ToNumber(x) IN v.t = "num" /\ v.n > 0

\* String.prototype.indexOf(pat): the first position (from 1) at which pat
\* occurs in chars, 0 when it does not occur.
IndexOf(chars, pat) ==
    LET at == {i \in 1..(Len(chars) - Len(pat) + 1) : SubSeq(chars, i, i + Len(pat) - 1) = pat}
    IN  IF at = {} THEN 0 ELSE CHOOSE i \in at : \A j \in at : i <= j

\* String.prototype.includes(pat)
Includes(chars, pat) == IndexOf(chars, pat) # 0

\* String.prototype.replace(pat, by) with a string pattern: the first
\* occurrence only.
Replace(chars, pat, by) ==
    LET i == IndexOf(chars, pat)
    IN  IF i = 0 THEN chars
        ELSE SubSeq(chars, 1, i - 1) \o by \o SubSeq(chars, i + Len(pat), Len(chars))

\* String.prototype.split(sep)[0] with a one-character separator.
SplitFirst(chars, sep) ==
    LET i == IndexOf(chars, <<sep>>)
    IN  IF i = 0 THEN chars ELSE SubSeq(chars, 1, i - 1)

----------------------------------------------------------------------------
(* Inbound frames: event.data and, for a text frame that is valid JSON, the *)
(* value JSON.parse returns, with the properties the handler reads          *)

\* A price level of a book message: an array [price, size], or a value that
\* cannot be destructured.
Pair(p, q) == [iterable |-> TRUE, p |-> p, q |-> q]

NotAPair == [iterable |-> FALSE, p |-> Undefined, q |-> Undefined]

\* One side of a book message: a missing property, an array of levels, or a
\* value that is no array.
Missing == [present |-> FALSE, isArray |-> FALSE, levels |-> <<>>]

Levels(ls) == [present |-> TRUE, isArray |-> TRUE, levels |-> ls]

NotAnArray == [present |-> TRUE, isArray |-> FALSE, levels |-> <<>>]

\* The object that carries the sides: bids/asks (OKX, Deribit), b/a (Bybit).
BookObject(bids, asks, b, a) == [bids |-> bids, asks |-> asks, b |-> b, a |-> a]

NoBook == BookObject(Missing, Missing, Missing, Missing)

\* data.data is absent, an empty array, an array whose first element is the
\* book object, or the book object itself; data.params.data is absent or
\* the book object.
Absent == [kind |-> "absent", book |-> NoBook]

ArrayOf(book) == [kind |-> "array", book |-> book]

EmptyArray == [kind |-> "emptyArray", book |-> NoBook]

Object(book) == [kind |-> "object", book |-> book]

\* The parsed JSON value: null, or a value with these properties.
EmptyJson ==
    [isNull |-> FALSE, success |-> FALSE, op |-> "none", result |-> "none",
     event |-> "none", topic |-> <<>>, data |-> Absent, params |-> Absent]

JsonNull == [EmptyJson EXCEPT !.isNull = TRUE]

BinaryFrame == [text |-> FALSE, body |-> "bytes", json |-> EmptyJson]

PongFrame == [text |-> TRUE, body |-> "pong", json |-> EmptyJson]

GarbageFrame == [text |-> TRUE, body |-> "garbage", json |-> EmptyJson]

JsonFrame(j) == [text |-> TRUE, body |-> "json", json |-> j]

\* "orderbook.1."
OrderbookTopic == <<"o", "r", "d", "e", "r", "b", "o", "o", "k", ".", "1", ".">>

\* "tickers."
TickersTopic == <<"t", "i", "c", "k", "e", "r", "s", ".">>

\* The subscription acknowledgements of the venues.
AckJson(v) ==
    CASE v = "OKX" -> [EmptyJson EXCEPT !.event = "subscribe"]
      [] v = "Bybit" -> [EmptyJson EXCEPT !.success = TRUE, !.op = "subscribe"]
      [] v = "Deribit" -> [EmptyJson EXCEPT !.result = "ok"]

\* A book message in the schema of a venue.
BookJson(v, bids, asks) ==
    CASE v = "OKX" -> [EmptyJson EXCEPT !.data = ArrayOf(BookObject(bids, asks, Missing, Missing))]
      [] v = "Bybit" -> [EmptyJson EXCEPT !.topic = OrderbookTopic,
                                           !.data = Object(BookObject(Missing, Missing, bids, asks))]
      [] v = "Deribit" -> [EmptyJson EXCEPT !.params = Object(BookObject(bids, asks, Missing, Missing))]

----------------------------------------------------------------------------
(* Platform: WebSocket.close() *)

\* ws.close(): a socket still connecting fails (error, then close 1006);
\* an open one starts the closing handshake; otherwise nothing happens.
WsCloseCall(ss, id) ==
    IF ss[id].readyState = "CONNECTING"
    THEN [ss EXCEPT ![id].readyState = "CLOSING", ![id].failed = TRUE]
    ELSE IF ss[id].readyState = "OPEN"
         THEN [ss EXCEPT ![id].readyState = "CLOSING"]
         ELSE ss

----------------------------------------------------------------------------
(* The hook *)

\* createWebSocket: the new socket, or none when the constructor throws
\* (then the status is set to "error" and null is returned).
createWebSocket(st, v, s, throws) ==
    IF throws
    THEN [st EXCEPT !.sockets = Append(@, [venue |-> v, symbol |-> s, readyState |-> "NONE",
                                            failed |-> FALSE, ct |-> FALSE,
                                            hb |-> FALSE, rc |-> FALSE, mock |-> FALSE]),
                    !.connectionStatus = [@ EXCEPT ![v] = "error"]]
    ELSE [st EXCEPT !.sockets = Append(@, [venue |-> v, symbol |-> s, readyState |-> "CONNECTING",
                                            failed |-> FALSE, ct |-> FALSE,
                                            hb |-> FALSE, rc |-> FALSE, mock |-> FALSE])]

\* connectToVenue(venue, symbol): up to websockets.current[key] = ws.
connectToVenue(st, v, s, throws) ==
    LET key == Key(v, s)
        old == st.websockets[key]
        s1 == IF old # 0
              THEN [st EXCEPT !.sockets = WsCloseCall(@, old), !.websockets = [@ EXCEPT ![key] = 0]]
              ELSE st
        hbh == s1.heartbeatIntervals[key]
        s2 == IF hbh # 0
              THEN [s1 EXCEPT !.sockets = [@ EXCEPT ![hbh].hb = FALSE],
                              !.heartbeatIntervals = [@ EXCEPT ![key] = 0]]
              ELSE s1
        rch == s2.reconnectTimeouts[key]
        s3 == IF rch # 0
              THEN [s2 EXCEPT !.sockets = [@ EXCEPT ![rch].rc = FALSE],
                              !.reconnectTimeouts = [@ EXCEPT ![key] = 0]]
              ELSE s2
        s4 == [s3 EXCEPT !.connectionStatus = [@ EXCEPT ![v] = "connecting"]]
        s5 == createWebSocket(s4, v, s, throws)
        id == Len(s5.sockets)
    IN  IF throws
        THEN s5
        ELSE [s5 EXCEPT !.sockets = [@ EXCEPT ![id].ct = TRUE],
                        !.websockets = [@ EXCEPT ![key] = id]]

\* venues.forEach((venue) => connectToVenue(venue, symbol))
RECURSIVE ConnectAll(_, _, _, _, _)
ConnectAll(st, vs, i, s, fails) ==
    IF i > Len(vs) THEN st
    ELSE ConnectAll(connectToVenue(st, vs[i], s, vs[i] \in fails), vs, i + 1, s, fails)

\* Mutant of Cleanup: the teardown also marks every venue disconnected.
CleanupResetsStatus(st) ==
    LET inWs(i) == \E k \in Keys : st.websockets[k] = i
        inRc(i) == \E k \in Keys : st.reconnectTimeouts[k] = i
        inMock(i) == \E k \in MockKeys : st.reconnectTimeouts[k] = i
        inHb(i) == \E k \in Keys : st.heartbeatIntervals[k] = i
        closed(x) == IF x.readyState = "CONNECTING"
                     THEN [x EXCEPT !.readyState = "CLOSING", !.failed = TRUE]
                     ELSE IF x.readyState = "OPEN"
                          THEN [x EXCEPT !.readyState = "CLOSING"]
                          ELSE x
    IN  [st EXCEPT
           !.sockets = [i \in DOMAIN st.sockets |->
                          LET a == IF inWs(i) THEN closed(st.sockets[i]) ELSE st.sockets[i]
                          IN  [a EXCEPT !.rc = IF inRc(i) THEN FALSE ELSE @,
                                        !.mock = IF inMock(i) THEN FALSE ELSE @,
                                        !.hb = IF inHb(i) THEN FALSE ELSE @]],
           !.websockets = [k \in Keys |-> 0],
           !.reconnectTimeouts = [k \in Keys \cup MockKeys |-> 0],
           !.heartbeatIntervals = [k \in Keys |-> 0],
           !.connectionStatus = [v \in DOMAIN st.connectionStatus |-> "disconnected"]]

\* The cleanup function of the effect.
Cleanup(st) ==
    LET inWs(i) == \E k \in Keys : st.websockets[k] = i
        inRc(i) == \E k \in Keys : st.reconnectTimeouts[k] = i
        inMock(i) == \E k \in MockKeys : st.reconnectTimeouts[k] = i
        inHb(i) == \E k \in Keys : st.heartbeatIntervals[k] = i
        closed(x) == IF x.readyState = "CONNECTING"
                     THEN [x EXCEPT !.readyState = "CLOSING", !.failed = TRUE]
                     ELSE IF x.readyState = "OPEN"
                          THEN [x EXCEPT !.readyState = "CLOSING"]
                          ELSE x
    IN  [st EXCEPT
           !.sockets = [i \in DOMAIN st.sockets |->
                          LET a == IF inWs(i) THEN closed(st.sockets[i]) ELSE st.sockets[i]
                          IN  [a EXCEPT !.rc = IF inRc(i) THEN FALSE ELSE @,
                                        !.mock = IF inMock(i) THEN FALSE ELSE @,
                                        !.hb = IF inHb(i) THEN FALSE ELSE @]],
           !.websockets = [k \in Keys |-> 0],
           !.reconnectTimeouts = [k \in Keys \cup MockKeys |-> 0],
           !.heartbeatIntervals = [k \in Keys |-> 0]]

VenueSet == {venues[i] : i \in 1..Len(venues)}

\* A book message of a venue with one level a side, in the venue's types:
\* strings for OKX and Bybit, numbers for Deribit.
TopOfBook(v) ==
    IF v = "Deribit"
    THEN BookJson(v, Levels(<<Pair(JNum(99), JNum(1))>>), Levels(<<Pair(JNum(101), JNum(1))>>))
    ELSE BookJson(v, Levels(<<Pair(JStr(<<"9", "9">>), JStr(<<"1">>))>>),
                     Levels(<<Pair(JStr(<<"1", "0", "1">>), JStr(<<"1">>))>>))

\* The frames the supervisor is fed while it runs: a pong, and the
\* acknowledgement and a book message of each venue it subscribed to.
Frames == {PongFrame} \cup {JsonFrame(AckJson(v)) : v \in VenueSet}
                      \cup {JsonFrame(TopOfBook(v)) : v \in VenueSet}

----------------------------------------------------------------------------
(* Handlers of one attempt; w is the socket the closure captured *)

\* setupHeartbeat(ws, venue, key)
setupHeartbeat(st, w) ==
    LET x == st.sockets[w]
    IN  [st EXCEPT !.sockets = [@ EXCEPT ![w].hb = TRUE],
                   !.heartbeatIntervals = [@ EXCEPT ![Key(x.venue, x.symbol)] = w]]

\* Mutant of heartbeatTick: the interval is not cleared when the transport
\* is found not open.
heartbeatTickKeepsFiring(st, w, throws) ==
    IF st.sockets[w].readyState = "OPEN"
    THEN IF throws
         THEN [st EXCEPT !.sockets = [@ EXCEPT ![w].hb = FALSE],
                         !.out = Append(@, Send("ping", TRUE))]
         ELSE [st EXCEPT !.out = Append(@, Send("ping", FALSE))]
    ELSE st

\* The interval callback of setupHeartbeat: ping while open (the interval is
\* cleared when ws.send throws), else clear the interval. The handle stays
\* in heartbeatIntervals.current.
heartbeatTick(st, w, throws) ==
    IF st.sockets[w].readyState = "OPEN"
    THEN IF throws
         THEN [st EXCEPT !.sockets = [@ EXCEPT ![w].hb = FALSE],
                         !.out = Append(@, Send("ping", TRUE))]
         ELSE [st EXCEPT !.out = Append(@, Send("ping", FALSE))]
    ELSE [st EXCEPT !.sockets = [@ EXCEPT ![w].hb = FALSE]]

\* The callback of the 15s connectionTimeout.
connectionTimeout(st, w) ==
    LET x == st.sockets[w]
        fired == [st EXCEPT !.sockets = [@ EXCEPT ![w].ct = FALSE]]
    IN  IF x.readyState # "OPEN"
        THEN [fired EXCEPT
                !.sockets = [WsCloseCall(@, w) EXCEPT ![w].mock = TRUE],
                !.connectionStatus = [@ EXCEPT ![x.venue] = "connected"],
                !.orderbooks = [@ EXCEPT ![x.venue] = SyntheticBook(x.venue, x.symbol)],
                !.reconnectTimeouts = [@ EXCEPT ![MockKey(x.venue, x.symbol)] = w]]
        ELSE fired

\* The callback of the 2s mockInterval.
mockInterval(st, w) ==
    LET x == st.sockets[w]
    IN  [st EXCEPT !.orderbooks = [@ EXCEPT ![x.venue] = SyntheticBook(x.venue, x.symbol)]]

\* Mutant of onopen: the heartbeat is set up inside the try block of the
\* subscription, so a failing send skips it.
onopenHeartbeatInTry(st, w, throws) ==
    LET x == st.sockets[w]
        s1 == [st EXCEPT !.sockets = [@ EXCEPT ![w].ct = FALSE],
                         !.connectionStatus = [@ EXCEPT ![x.venue] = "connected"],
                         !.error = NULL]
        s2 == [s1 EXCEPT !.out = Append(@, Send("subscribe", throws))]
    IN  IF throws THEN s2 ELSE setupHeartbeat(s2, w)

\* ws.onopen: clearTimeout(connectionTimeout), status, setError(null), one
\* ws.send of the subscribe message (an exception is caught and logged),
\* then setupHeartbeat.
onopen(st, w, throws) ==
    LET x == st.sockets[w]
        s1 == [st EXCEPT !.sockets = [@ EXCEPT ![w].ct = FALSE],
                         !.connectionStatus = [@ EXCEPT ![x.venue] = "connected"],
                         !.error = NULL]
        s2 == [s1 EXCEPT !.out = Append(@, Send("subscribe", throws))]
    IN  setupHeartbeat(s2, w)

\* slice(0, 25)
Depth == 25

\* What map/filter/slice return for one side, or that they threw.
Thrown == [threw |-> TRUE, levels |-> <<>>]

Returned(ls) == [threw |-> FALSE, levels |-> ls]

Positive(l) == GreaterThanZero(l[1]) /\ GreaterThanZero(l[2])

Slice(ls) == SubSeq(ls, 1, IF Len(ls) < Depth THEN Len(ls) ELSE Depth)

\* Mutant of parseSide: the side is truncated before it is filtered.
parseSideSliceFirst(side, coerce) ==
    IF ~side.isArray \/ \E i \in 1..Len(side.levels) : ~side.levels[i].iterable
    THEN Thrown
    ELSE LET mapped == [i \in 1..Len(side.levels) |->
                          IF coerce
                          THEN <<parseFloat(side.levels[i].p), parseFloat(side.levels[i].q)>>
                          ELSE <<side.levels[i].p, side.levels[i].q>>]
         IN  Returned(SelectSeq(Slice(mapped), Positive))

\* One side in parseOrderbookData: .map(parseFloat) for OKX and Bybit, then
\* .filter(price > 0 && size > 0).slice(0, 25). A side that is no array or
\* a level that cannot be destructured throws a TypeError.
parseSide(side, coerce) ==
    IF ~side.isArray \/ \E i \in 1..Len(side.levels) : ~side.levels[i].iterable
    THEN Thrown
    ELSE LET mapped == [i \in 1..Len(side.levels) |->
                          IF coerce
                          THEN <<parseFloat(side.levels[i].p), parseFloat(side.levels[i].q)>>
                          ELSE <<side.levels[i].p, side.levels[i].q>>]
         IN  Returned(Slice(SelectSeq(mapped, Positive)))

\* The object literal parseOrderbookData returns, null when a side threw
\* (the catch block logs and null is returned).
bookOf(bids, asks, coerce) ==
    LET b == parseSide(bids, coerce)
        a == parseSide(asks, coerce)
    IN  IF b.threw \/ a.threw THEN NULL ELSE [bids |-> b.levels, asks |-> a.levels]

\* parseOrderbookData(venue, data)
parseOrderbookData(venue, data) ==
    CASE venue = "OKX" ->
           IF data.data.kind = "array" /\ data.data.book.bids.present /\ data.data.book.asks.present
           THEN bookOf(data.data.book.bids, data.data.book.asks, TRUE)
           ELSE NULL
      [] venue = "Bybit" ->
           \* data.data that is an array is truthy and has no b and a
           IF /\ data.topic # <<>> /\ Includes(data.topic, <<"o", "r", "d", "e", "r", "b", "o", "o", "k">>)
              /\ data.data.kind = "object"
              /\ data.data.book.b.present /\ data.data.book.a.present
           THEN bookOf(data.data.book.b, data.data.book.a, TRUE)
           ELSE NULL
      [] venue = "Deribit" ->
           IF data.params.kind = "object" /\ data.params.book.bids.present /\ data.params.book.asks.present
           THEN bookOf(data.params.book.bids, data.params.book.asks, FALSE)
           ELSE NULL

\* The body of the try block of ws.onmessage: reading a property of null
\* throws a TypeError.
onmessageBody(st, w, frame) ==
    LET x == st.sockets[w]
        venue == x.venue
        data == frame.json
    IN  IF ~frame.text THEN st
        ELSE IF frame.body = "pong" THEN st
        ELSE IF frame.body # "json" THEN st
        ELSE IF data.isNull THEN [st EXCEPT !.threw = TRUE]
        ELSE IF venue = "Bybit" /\ data.success /\ data.op = "subscribe" THEN st
        ELSE IF venue = "Deribit" /\ data.result = "ok" THEN st
        ELSE IF venue = "OKX" /\ data.event = "subscribe" THEN st
        ELSE LET orderbook == parseOrderbookData(venue, data)
             IN  IF orderbook # NULL
                 THEN [st EXCEPT !.orderbooks =
                          [@ EXCEPT ![venue] = ParsedBook(venue, x.symbol, orderbook)],
                                 !.did = @ \cup {"store"}]
                 ELSE st

\* Mutant of onmessage: the result of the parser reaches setOrderbooks also
\* when it is null.
onmessageStoresNull(st, w, frame) ==
    LET x == st.sockets[w]
        venue == x.venue
        data == frame.json
    IN  IF ~frame.text THEN st
        ELSE IF frame.body = "pong" THEN st
        ELSE IF frame.body # "json" THEN st
        ELSE IF data.isNull THEN st
        ELSE IF venue = "Bybit" /\ data.success /\ data.op = "subscribe" THEN st
        ELSE IF venue = "Deribit" /\ data.result = "ok" THEN st
        ELSE IF venue = "OKX" /\ data.event = "subscribe" THEN st
        ELSE LET orderbook == parseOrderbookData(venue, data)
             IN  [st EXCEPT !.orderbooks =
                     [@ EXCEPT ![venue] = IF orderbook # NULL
                                          THEN ParsedBook(venue, x.symbol, orderbook)
                                          ELSE NULL],
                            !.did = @ \cup {"store"}]

\* ws.onmessage: the catch block logs what the body threw; only a book the
\* parser returned reaches setOrderbooks.
onmessage(st, w, frame) ==
    LET r == onmessageBody(st, w, frame)
    IN  IF r.threw THEN st ELSE r

\* Mutant of onerror: the status is set, the message is not.
onerrorNoMessage(st, w) ==
    LET x == st.sockets[w]
    IN  [st EXCEPT !.connectionStatus = [@ EXCEPT ![x.venue] = "error"]]

\* Mutant of onerror: every venue is marked, not only the socket's.
onerrorEveryVenue(st, w) ==
    LET x == st.sockets[w]
    IN  [st EXCEPT !.connectionStatus = [v \in DOMAIN @ |-> "error"],
                   !.error = ConnectionFailedMessage(x.venue)]

\* ws.onerror
onerror(st, w) ==
    LET x == st.sockets[w]
    IN  [st EXCEPT !.connectionStatus = [@ EXCEPT ![x.venue] = "error"],
                   !.error = ConnectionFailedMessage(x.venue)]

\* setTimeout(() => connectToVenue(venue, symbol), 5000)
ReconnectDelay == 5000

\* Mutant of onclose: only code 1000 counts as a normal closure.
oncloseOnly1000(st, w, code) ==
    LET x == st.sockets[w]
        key == Key(x.venue, x.symbol)
        s1 == [st EXCEPT !.connectionStatus = [@ EXCEPT ![x.venue] = "disconnected"]]
        hbh == s1.heartbeatIntervals[key]
        s2 == IF hbh # 0
              THEN [s1 EXCEPT !.sockets = [@ EXCEPT ![hbh].hb = FALSE],
                              !.heartbeatIntervals = [@ EXCEPT ![key] = 0]]
              ELSE s1
    IN  IF code # 1000
        THEN [s2 EXCEPT !.sockets = [@ EXCEPT ![w].rc = TRUE],
                        !.reconnectTimeouts = [@ EXCEPT ![key] = w],
                        !.delay = ReconnectDelay]
        ELSE s2

\* Mutant of onclose: the delay doubles with every earlier attempt of the key.
oncloseBackoff(st, w, code) ==
    LET x == st.sockets[w]
        key == Key(x.venue, x.symbol)
        s1 == [st EXCEPT !.connectionStatus = [@ EXCEPT ![x.venue] = "disconnected"]]
        hbh == s1.heartbeatIntervals[key]
        s2 == IF hbh # 0
              THEN [s1 EXCEPT !.sockets = [@ EXCEPT ![hbh].hb = FALSE],
                              !.heartbeatIntervals = [@ EXCEPT ![key] = 0]]
              ELSE s1
        earlier == {i \in 1..(w - 1) : Key(st.sockets[i].venue, st.sockets[i].symbol) = key}
    IN  IF code # 1000 /\ code # 1001
        THEN [s2 EXCEPT !.sockets = [@ EXCEPT ![w].rc = TRUE],
                        !.reconnectTimeouts = [@ EXCEPT ![key] = w],
                        !.delay = ReconnectDelay * 2 ^ Cardinality(earlier)]
        ELSE s2

\* ws.onclose
onclose(st, w, code) ==
    LET x == st.sockets[w]
        key == Key(x.venue, x.symbol)
        s1 == [st EXCEPT !.connectionStatus = [@ EXCEPT ![x.venue] = "disconnected"]]
        hbh == s1.heartbeatIntervals[key]
        s2 == IF hbh # 0
              THEN [s1 EXCEPT !.sockets = [@ EXCEPT ![hbh].hb = FALSE],
                              !.heartbeatIntervals = [@ EXCEPT ![key] = 0]]
              ELSE s1
    IN  IF code # 1000 /\ code # 1001
        THEN [s2 EXCEPT !.sockets = [@ EXCEPT ![w].rc = TRUE],
                        !.reconnectTimeouts = [@ EXCEPT ![key] = w],
                        !.delay = ReconnectDelay]
        ELSE s2

\* The callback of the 5s reconnect timeout: connectToVenue(venue, symbol).
reconnectFire(st, w, throws) ==
    LET x == st.sockets[w]
    IN  connectToVenue([st EXCEPT !.sockets = [@ EXCEPT ![w].rc = FALSE]], x.venue, x.symbol, throws)

----------------------------------------------------------------------------
(* Actions *)

InitWith(vs) ==
    /\ venues = vs
    /\ symbol = NoSymbol
    /\ mounted = FALSE
    /\ sockets = <<>>
    /\ websockets = [k \in Keys |-> 0]
    /\ reconnectTimeouts = [k \in Keys \cup MockKeys |-> 0]
    /\ heartbeatIntervals = [k \in Keys |-> 0]
    /\ orderbooks = [v \in Venue |-> NULL]
    /\ connectionStatus = [v \in Venue |-> "disconnected"]
    /\ error = NULL
    /\ closing = 0
    /\ ev = [type |-> "init", ws |-> 0, code |-> 0, afterError |-> FALSE, n |-> 0, did |-> {}, sent |-> <<>>, delay |-> 0]
    /\ call = NoCall
    /\ sim = NoSim

Init == InitWith(OneVenue)

InitTwoVenues == InitWith(TwoVenues)

\* First run of the effect.
Mount(s, fails) ==
    /\ ~mounted /\ symbol = NoSymbol /\ closing = 0
    /\ Len(sockets) + Len(venues) <= MaxWs
    /\ Commit(ConnectAll(Cur, venues, 1, s, fails))
    /\ symbol' = s /\ mounted' = TRUE
    /\ ev' = Event("mount", 0, 0, FALSE, {"status", "connect"})
    /\ UNCHANGED <<call, sim, venues, closing>>

\* The symbol changes: cleanup of the old effect, then the effect again.
SymbolChange(s, fails) ==
    /\ mounted /\ s # symbol /\ closing = 0
    /\ Len(sockets) + Len(venues) <= MaxWs
    /\ Commit(ConnectAll(Cleanup(Cur), venues, 1, s, fails))
    /\ symbol' = s
    /\ ev' = Event("symbolChange", 0, 0, FALSE, {"status", "connect"})
    /\ UNCHANGED <<call, sim, venues, mounted, closing>>

\* The owning view unmounts: cleanup only.
Unmount ==
    /\ mounted /\ closing = 0
    /\ Commit(Cleanup(Cur))
    /\ mounted' = FALSE
    /\ ev' = Event("unmount", 0, 0, FALSE, {})
    /\ UNCHANGED <<call, sim, venues, symbol, closing>>

\* Callbacks are followed while the view is mounted (after the unmount the
\* state of the hook is gone), one at a time: the close event of a failed
\* connection comes right after its error event.
Running == mounted /\ closing = 0

\* The transport opens; sending the subscribe message may throw.
WsOpen(w, throws) ==
    /\ Running
    /\ sockets[w].readyState = "CONNECTING"
    /\ LET st == onopen([Cur EXCEPT !.sockets = [@ EXCEPT ![w].readyState = "OPEN"]], w, throws)
       IN  /\ Commit(st)
           /\ ev' = [Event("open", w, 0, FALSE, {"status", "error"}) EXCEPT !.sent = st.out]
    /\ UNCHANGED <<call, sim, venues, symbol, mounted, closing>>

\* The message event of socket w with the frame as event.data.
Deliver(w, frame) ==
    /\ Running
    /\ sockets[w].readyState = "OPEN"
    /\ LET st == onmessage(Cur, w, frame)
       IN  /\ Commit(st)
           /\ ev' = Event("message", w, 0, FALSE,
                          st.did \cup IF st.threw THEN {"exception"} ELSE {})
    /\ UNCHANGED <<venues, symbol, mounted, closing>>

\* A frame arrives on an open transport.
WsMessage(w, frame) == Deliver(w, frame) /\ UNCHANGED <<call, sim>>

\* The connection fails (never established, dropped, or closed before it
\* was established): the error event, with the close event to follow.
WsError(w) ==
    /\ Running
    /\ \/ sockets[w].readyState \in {"CONNECTING", "OPEN"}
       \/ sockets[w].readyState = "CLOSING" /\ sockets[w].failed
    /\ Commit(onerror([Cur EXCEPT !.sockets = [@ EXCEPT ![w].readyState = "CLOSED", ![w].failed = FALSE]], w))
    /\ closing' = w
    /\ ev' = Event("error", w, 0, FALSE, {"status", "error"})
    /\ UNCHANGED <<call, sim, venues, symbol, mounted>>

\* The close event that follows the error event of a failed connection.
WsCloseAfterError(w) ==
    /\ closing = w
    /\ LET st == onclose(Cur, w, 1006)
       IN  /\ Commit(st)
           /\ ev' = [Event("close", w, 1006, TRUE, {"status", "arm-rc"}) EXCEPT !.delay = st.delay]
    /\ closing' = 0
    /\ UNCHANGED <<call, sim, venues, symbol, mounted>>

\* The peer starts the closing handshake of an open transport: readyState
\* becomes CLOSING, no handler runs yet.
WsClosing(w) ==
    /\ Running
    /\ sockets[w].readyState = "OPEN"
    /\ sockets' = [sockets EXCEPT ![w].readyState = "CLOSING"]
    /\ ev' = Event("closing", w, 0, FALSE, {})
    /\ UNCHANGED <<call, sim, venues, symbol, mounted, closing, websockets, reconnectTimeouts,
                   heartbeatIntervals, orderbooks, connectionStatus, error>>

\* A close event without a preceding error event: the peer closes an open
\* transport, or the closing handshake of an open transport ends.
WsClose(w, code) ==
    /\ Running
    /\ \/ sockets[w].readyState = "OPEN"
       \/ sockets[w].readyState = "CLOSING" /\ ~sockets[w].failed
    /\ LET st == onclose([Cur EXCEPT !.sockets = [@ EXCEPT ![w].readyState = "CLOSED", ![w].failed = FALSE]], w, code)
       IN  /\ Commit(st)
           /\ ev' = [Event("close", w, code, FALSE,
                           IF code \in {1000, 1001} THEN {"status"} ELSE {"status", "arm-rc"})
                        EXCEPT !.delay = st.delay]
    /\ UNCHANGED <<call, sim, venues, symbol, mounted, closing>>

\* The 15s connect timeout of an attempt fires.
ConnectTimeout(w) ==
    /\ Running
    /\ sockets[w].ct
    /\ Commit(connectionTimeout(Cur, w))
    /\ ev' = Event("connectTimeout", w, 0, FALSE,
                   IF sockets[w].readyState # "OPEN" THEN {"status", "store", "arm-mock"} ELSE {})
    /\ UNCHANGED <<call, sim, venues, symbol, mounted, closing>>

\* A 2s synthetic-refresh interval fires.
MockTick(w) ==
    /\ Running
    /\ sockets[w].mock
    /\ Commit(mockInterval(Cur, w))
    /\ ev' = Event("mockTick", w, 0, FALSE, {"store"})
    /\ UNCHANGED <<call, sim, venues, symbol, mounted, closing>>

\* A 30s heartbeat interval fires; sending the ping may throw.
HeartbeatTick(w, throws) ==
    /\ Running
    /\ sockets[w].hb
    /\ LET st == heartbeatTick(Cur, w, throws)
       IN  /\ Commit(st)
           /\ ev' = [Event("heartbeat", w, 0, FALSE, {}) EXCEPT !.sent = st.out]
    /\ UNCHANGED <<call, sim, venues, symbol, mounted, closing>>

\* A 5s reconnect timeout fires.
ReconnectFire(w, throws) ==
    /\ Running
    /\ sockets[w].rc
    /\ Len(sockets) < MaxWs
    /\ Commit(reconnectFire(Cur, w, throws))
    /\ ev' = Event("reconnect", w, 0, FALSE, {"status", "connect"})
    /\ UNCHANGED <<call, sim, venues, symbol, mounted, closing>>

Next ==
    \/ \E fails \in SUBSET VenueSet : Mount(InitialSymbol, fails)
    \/ \E s \in Symbols, fails \in SUBSET VenueSet : SymbolChange(s, fails)
    \/ Unmount
    \/ \E w \in Ids : WsOpen(w, FALSE)
    \/ \E w \in Ids, frame \in Frames : WsMessage(w, frame)
    \/ \E w \in Ids : WsError(w)
    \/ \E w \in Ids : WsCloseAfterError(w)
    \/ \E w \in Ids, code \in CloseCodes : WsClose(w, code)
    \/ \E w \in Ids : ConnectTimeout(w)
    \/ \E w \in Ids : MockTick(w)
    \/ \E w \in Ids : HeartbeatTick(w, FALSE)
    \/ \E w \in Ids, throws \in BOOLEAN : ReconnectFire(w, throws)

Spec == Init /\ [][Next]_vars

SpecTwoVenues == InitTwoVenues /\ [][Next]_vars

\* The supervisor of two venues within MaxVenueWs attempts.
NextVenues == Next /\ Len(sockets') <= MaxVenueWs

SpecVenues == InitTwoVenues /\ [][NextVenues]_vars

\* The steps of Next within MaxHbWs attempts, and what only the open handler
\* and the heartbeat can observe: a ws.send that throws, and the peer
\* starting the closing handshake before the close event.
NextHeartbeat ==
    \/ Next /\ Len(sockets') <= MaxHbWs
    \/ \E w \in Ids : WsOpen(w, TRUE)
    \/ \E w \in Ids : HeartbeatTick(w, TRUE)
    \/ \E w \in Ids : WsClosing(w)

SpecHeartbeat == Init /\ [][NextHeartbeat]_vars

\* Timers that are armed fire, a failed connection delivers its close event
\* after its error event, and a transport that close() was called on ends.
\* Nothing obliges a transport to open, to deliver frames or to fail.
Fairness ==
    \A w \in 1..MaxWs :
        /\ WF_vars(w \in Ids /\ ConnectTimeout(w))
        /\ WF_vars(w \in Ids /\ MockTick(w))
        /\ WF_vars(w \in Ids /\ HeartbeatTick(w, FALSE))
        /\ WF_vars(w \in Ids /\ \E throws \in BOOLEAN : ReconnectFire(w, throws))
        /\ WF_vars(w \in Ids /\ WsCloseAfterError(w))
        /\ WF_vars(w \in Ids /\ sockets[w].readyState = "CLOSING" /\ WsError(w))
        /\ WF_vars(w \in Ids /\ sockets[w].readyState = "CLOSING" /\ WsClose(w, 1000))

FairSpec == Spec /\ Fairness

\* The supervisor with fair timers within MaxRcWs attempts.
NextReconnect == Next /\ Len(sockets') <= MaxRcWs

FairnessReconnect ==
    \A w \in 1..MaxRcWs :
        /\ WF_vars(w \in Ids /\ ConnectTimeout(w))
        /\ WF_vars(w \in Ids /\ MockTick(w))
        /\ WF_vars(w \in Ids /\ HeartbeatTick(w, FALSE))
        /\ WF_vars(w \in Ids /\ Len(sockets) < MaxRcWs /\ \E throws \in BOOLEAN : ReconnectFire(w, throws))
        /\ WF_vars(w \in Ids /\ WsCloseAfterError(w))
        /\ WF_vars(w \in Ids /\ sockets[w].readyState = "CLOSING" /\ WsError(w))
        /\ WF_vars(w \in Ids /\ sockets[w].readyState = "CLOSING" /\ WsClose(w, 1000))

SpecReconnect == Init /\ [][NextReconnect]_vars /\ FairnessReconnect

----------------------------------------------------------------------------
(* The message handler on the frames a venue may send: one open socket of  *)
(* one venue, the Store empty or holding an earlier book, one frame         *)

\* The hook before its first effect.
Fresh ==
    [sockets |-> <<>>, websockets |-> [k \in Keys |-> 0],
     reconnectTimeouts |-> [k \in Keys \cup MockKeys |-> 0],
     heartbeatIntervals |-> [k \in Keys |-> 0],
     orderbooks |-> [v \in Venue |-> NULL],
     connectionStatus |-> [v \in Venue |-> "disconnected"],
     error |-> NULL, out |-> <<>>, threw |-> FALSE, did |-> {}, delay |-> 0]

\* A number as the venue writes it: a decimal string (OKX, Bybit) or a JSON
\* number (Deribit).
Wire(v, n) == IF v = "Deribit" THEN JNum(n) ELSE JStr(NumberToString(n))

\* Values of a price or a size other than a positive number: zero, a
\* negative number, the empty string, a word, and digits followed by a
\* letter ("3x", of which parseFloat makes 3).
Unusual(v) == {Wire(v, 0), Wire(v, 0 - 1), JStr(<<>>), JStr(<<"n", "a">>), JStr(<<"3", "x">>)}

\* The i-th price of a side of n levels in an order: descending from the
\* top, ascending from the top, or ascending with the last two levels at
\* the same price and the first two exchanged.
Orders == {"descending", "ascending", "disordered"}

PriceAt(order, i) ==
    CASE order = "descending" -> 200 - i
      [] order = "ascending" -> 200 + i
      [] order = "disordered" -> IF i = 1 THEN 202 ELSE IF i = 2 THEN 201 ELSE 200 + i

\* A side of n levels; the levels at the positions in bad carry the value
\* x for the price (odd positions) or the size (even positions).
Side(v, n, order, bad, x) ==
    Levels([i \in 1..n |->
              IF i \in bad
              THEN IF i % 2 = 1 THEN Pair(x, Wire(v, 1)) ELSE Pair(Wire(v, PriceAt(order, i)), x)
              ELSE Pair(Wire(v, PriceAt(order, i)), Wire(v, 1 + (i % 3)))])

\* Lengths of the sides fed to the parser: none, a few, and more than Depth.
SideLengths == {0, 3, MaxLevels}

\* Positions of the levels that carry an unusual value.
BadPositions == {{}, {2}, {1, 4, Depth + 1}}

\* Book updates in the schema of venue v.
BookUpdates(v) ==
    {BookJson(v, Side(v, n, o, bad, x), Side(v, m, "ascending", {}, x)) :
        n \in SideLengths, m \in {3}, o \in Orders, bad \in BadPositions, x \in Unusual(v)}
    \cup
    {BookJson(v, Side(v, 3, "descending", {}, x), Side(v, n, o, bad, x)) :
        n \in {MaxLevels}, o \in Orders, bad \in BadPositions, x \in Unusual(v)}

\* JSON values that are no book update of venue v: null, a value without
\* the properties read, the acknowledgement and the book update of another
\* venue, an update under another topic, an empty data array, and updates
\* of v with a side missing, a side that is no array, or a level that is no
\* pair.
Unrecognised(v) ==
    LET good == Side(v, 3, "descending", {}, Wire(v, 0))
        other == Venue \ {v}
    IN  {JsonNull, EmptyJson}
        \cup {AckJson(u) : u \in other}
        \cup {BookJson(u, good, good) : u \in other}
        \cup {[BookJson("Bybit", good, good) EXCEPT !.topic = TickersTopic]}
        \cup {[EmptyJson EXCEPT !.data = EmptyArray]}
        \cup {BookJson(v, bad, good) : bad \in {Missing, NotAnArray, Levels(<<NotAPair>>)}}
        \cup {BookJson(v, good, bad) : bad \in {Missing, NotAnArray, Levels(<<NotAPair>>)}}

\* The frames of the five kinds the handler drops, and the book updates.
Inbound(v) ==
    {[fn |-> "onmessage", venue |-> v, category |-> "binary", frame |-> BinaryFrame],
     [fn |-> "onmessage", venue |-> v, category |-> "pong", frame |-> PongFrame],
     [fn |-> "onmessage", venue |-> v, category |-> "notJson", frame |-> GarbageFrame],
     [fn |-> "onmessage", venue |-> v, category |-> "ack", frame |-> JsonFrame(AckJson(v))]}
    \cup {[fn |-> "onmessage", venue |-> v, category |-> "unrecognised", frame |-> JsonFrame(j)] :
            j \in Unrecognised(v)}
    \cup {[fn |-> "onmessage", venue |-> v, category |-> "book", frame |-> JsonFrame(j)] :
            j \in BookUpdates(v)}

\* The hook of one venue after the effect (mounted), after the open event
\* of its socket (opened), and after a first book message when earlier is
\* true (st); then one frame to deliver.
InitMessages ==
    \E v \in Venue, earlier \in BOOLEAN :
      \E effect \in {ConnectAll(Fresh, <<v>>, 1, InitialSymbol, {})} :
        \E opened \in {onopen([effect EXCEPT !.sockets = [@ EXCEPT ![1].readyState = "OPEN"]], 1, FALSE)} :
          \E st \in {IF earlier THEN onmessage(opened, 1, JsonFrame(TopOfBook(v))) ELSE opened} :
            \E c \in Inbound(v) :
                /\ venues = <<v>>
                /\ symbol = InitialSymbol
                /\ mounted = TRUE
                /\ sockets = st.sockets
                /\ websockets = st.websockets
                /\ reconnectTimeouts = st.reconnectTimeouts
                /\ heartbeatIntervals = st.heartbeatIntervals
                /\ orderbooks = st.orderbooks
                /\ connectionStatus = st.connectionStatus
                /\ error = st.error
                /\ closing = 0
                /\ ev = [type |-> "open", ws |-> 1, code |-> 0, afterError |-> FALSE, n |-> 1,
                         did |-> {"status", "error"}, sent |-> <<>>, delay |-> 0]
                /\ call = c
                /\ sim = NoSim

\* The frame is delivered to the handler of the socket.
Message ==
    /\ call.fn = "onmessage"
    /\ Deliver(1, call.frame)
    /\ call' = [call EXCEPT !.fn = "delivered"]
    /\ UNCHANGED sim

NextMessages == Message

SpecMessages == InitMessages /\ [][NextMessages]_vars

----------------------------------------------------------------------------
(* The synthetic generator. Prices and sizes are in thousandths; a value   *)
(* of Math.random() is d / 10 for a digit d                                 *)

\* for (let i = 0; i < 25; i++)
MockLevels == 25

\* The values Math.random() returns in a call: lo in general, hi in the
\* calls (counted from 1) listed in at.
Random(dr, k) == IF k \in dr.at THEN dr.hi ELSE dr.lo

\* venueMultiplier, in thousandths
venueMultiplier(venue) ==
    CASE venue = "OKX" -> 1000
      [] venue = "Bybit" -> 1001
      [] venue = "Deribit" -> 999
      [] OTHER -> 1000

\* Mutant of priceOffset: the first level has offset 0.
priceOffsetFromZero(i, d) == i * (500 * d + 2000)

\* (i + 1) * (Math.random() * 5 + 2)
priceOffset(i, d) == (i + 1) * (500 * d + 2000)

\* Math.random() * 3 + 0.1
sizeOf(d) == 300 * d + 100

\* Array.prototype.sort with the comparator of the generator: stable, by
\* price, ascending for dir = 1 and descending for dir = -1.
RECURSIVE Insert(_, _, _)
Insert(sorted, l, dir) ==
    IF sorted = <<>> \/ dir * sorted[Len(sorted)][1] <= dir * l[1]
    THEN Append(sorted, l)
    ELSE Append(Insert(SubSeq(sorted, 1, Len(sorted) - 1), l, dir), sorted[Len(sorted)])

RECURSIVE Sort(_, _)
Sort(ls, dir) ==
    IF ls = <<>> THEN <<>>
    ELSE Insert(Sort(SubSeq(ls, 1, Len(ls) - 1), dir), ls[Len(ls)], dir)

\* generateMockOrderbook(basePrice, venue), basePrice in whole units, after
\* k0 earlier calls of Math.random().
generateMockOrderbook(basePrice, venue, dr, k0) ==
    LET adjustedBasePrice == basePrice * venueMultiplier(venue)
        bids == [n \in 1..MockLevels |->
                   <<adjustedBasePrice - priceOffset(n - 1, Random(dr, k0 + 2 * n - 1)),
                     sizeOf(Random(dr, k0 + 2 * n))>>]
        asks == [n \in 1..MockLevels |->
                   <<adjustedBasePrice + priceOffset(n - 1, Random(dr, k0 + 2 * MockLevels + 2 * n - 1)),
                     sizeOf(Random(dr, k0 + 2 * MockLevels + 2 * n))>>]
    IN  [bids |-> Sort(bids, 0 - 1), asks |-> Sort(asks, 1)]

\* basePrices[symbol] || 50000
basePrices(s) ==
    CASE s \in {"BTC-USD", "BTC-USDT", "BTCUSDT", "BTC-PERPETUAL"} -> 43000
      [] s \in {"ETH-USD", "ETH-USDT", "ETHUSDT", "ETH-PERPETUAL"} -> 2500
      [] OTHER -> 50000

\* (Math.random() - 0.5) * 100
priceVariation(d) == (d - 5) * 10

\* The reference price getMockOrderbookForVenue passes on.
adjustedPrice(s, dr) == basePrices(s) + priceVariation(Random(dr, 1))

\* getMockOrderbookForVenue(venue, symbol)
getMockOrderbookForVenue(venue, s, dr) ==
    generateMockOrderbook(adjustedPrice(s, dr), venue, dr, 1)

----------------------------------------------------------------------------
(* Symbol translation *)

\* The characters of the symbols of type Symbol.
Chars(s) ==
    CASE s = "BTC-USD" -> <<"B", "T", "C", "-", "U", "S", "D">>
      [] s = "ETH-USD" -> <<"E", "T", "H", "-", "U", "S", "D">>
      [] s = "BTC-USDT" -> <<"B", "T", "C", "-", "U", "S", "D", "T">>
      [] s = "ETH-USDT" -> <<"E", "T", "H", "-", "U", "S", "D", "T">>

\* Mutant of formatSymbolForVenue: Bybit keeps the dash.
formatSymbolKeepsDash(venue, chars) ==
    CASE venue = "OKX" -> Replace(chars, <<"U", "S", "D">>, <<"U", "S", "D", "T">>)
      [] venue = "Bybit" -> Replace(chars, <<"U", "S", "D">>, <<"U", "S", "D", "T">>)
      [] venue = "Deribit" ->
           SplitFirst(chars, "-") \o <<"-", "P", "E", "R", "P", "E", "T", "U", "A", "L">>
      [] OTHER -> chars

\* formatSymbolForVenue(venue, symbol)
formatSymbolForVenue(venue, chars) ==
    CASE venue = "OKX" -> Replace(chars, <<"U", "S", "D">>, <<"U", "S", "D", "T">>)
      [] venue = "Bybit" ->
           Replace(Replace(chars, <<"-">>, <<>>), <<"U", "S", "D">>, <<"U", "S", "D", "T">>)
      [] venue = "Deribit" ->
           SplitFirst(chars, "-") \o <<"-", "P", "E", "R", "P", "E", "T", "U", "A", "L">>
      [] OTHER -> chars

----------------------------------------------------------------------------
(* The order estimator. Quantities and prices are in whole units; the      *)
(* multiplier is in tenths, marketImpact in thousandths, fillPercentage in  *)
(* hundredths and slippage in ten-thousandths                               *)

Immediate == <<"i", "m", "m", "e", "d", "i", "a", "t", "e">>

\* Mutant of timingMultiplier: immediate has the multiplier 1.0.
timingMultiplierFlat(timing) ==
    CASE timing = <<"1", "0", "s">> -> 9
      [] timing = <<"3", "0", "s">> -> 8
      [] OTHER -> 10

\* Mutant of timingMultiplier: "5s" has the multiplier of immediate.
timingMultiplierLevel(timing) ==
    CASE timing = Immediate -> 12
      [] timing = <<"5", "s">> -> 12
      [] timing = <<"1", "0", "s">> -> 9
      [] timing = <<"3", "0", "s">> -> 8
      [] OTHER -> 10

\* { immediate: 1.2, "5s": 1.0, "10s": 0.9, "30s": 0.8 }[order.timing] || 1.0
timingMultiplier(timing) ==
    CASE timing = Immediate -> 12
      [] timing = <<"5", "s">> -> 10
      [] timing = <<"1", "0", "s">> -> 9
      [] timing = <<"3", "0", "s">> -> 8
      [] OTHER -> 10

\* Math.max(a, b)
Max(a, b) == IF a >= b THEN a ELSE b

\* Mutant of warnings: the advice to execute immediately is given whatever
\* the timing.
warningsWhateverTiming(order, marketImpact, slippage, fillPercentage) ==
    LET w1 == IF marketImpact > 1500 THEN <<"High market impact detected">> ELSE <<>>
        w2 == IF slippage > order.price * 50 THEN <<"Significant slippage expected">> ELSE <<>>
        w3 == IF fillPercentage < 7000 THEN <<"Low fill probability">> ELSE <<>>
        w4 == IF marketImpact > 1000
              THEN <<"Consider immediate execution to reduce impact">> ELSE <<>>
    IN  w1 \o w2 \o w3 \o w4

\* const warnings: string[] = [] and its four conditional pushes
warnings(order, marketImpact, slippage, fillPercentage) ==
    LET w1 == IF marketImpact > 1500 THEN <<"High market impact detected">> ELSE <<>>
        w2 == IF slippage > order.price * 50 THEN <<"Significant slippage expected">> ELSE <<>>
        w3 == IF fillPercentage < 7000 THEN <<"Low fill probability">> ELSE <<>>
        w4 == IF order.timing # Immediate /\ marketImpact > 1000
              THEN <<"Consider immediate execution to reduce impact">> ELSE <<>>
    IN  w1 \o w2 \o w3 \o w4

\* calculateOrderMetrics(order)
calculateOrderMetrics(order) ==
    LET baseImpact == order.quantity
        marketImpact == baseImpact * timingMultiplier(order.timing)
        fillPercentage == Max(2000, 10000 - marketImpact)
        slippage == marketImpact * order.price
        estimatedFillTime ==
            IF order.timing = Immediate THEN <<"<", "1", "s">>
            ELSE Replace(order.timing, <<"s">>, <<>>) \o <<"s">>
    IN  [fillPercentage |-> fillPercentage, marketImpact |-> marketImpact,
         slippage |-> slippage, estimatedFillTime |-> estimatedFillTime,
         warnings |-> warnings(order, marketImpact, slippage, fillPercentage)]

----------------------------------------------------------------------------
(* The functions on their inputs: one pending call, then its result *)

\* Draws of Math.random(): one value in every call, or another value in
\* one or two of the first MaxCall calls (the variation, the bids and the
\* first asks).
Draws ==
    {[lo |-> d, hi |-> d, at |-> {}] : d \in {0, 5, 9}}
    \cup {[lo |-> d[1], hi |-> d[2], at |-> {a, b}] :
             d \in {<<0, 5>>, <<9, 0>>}, a \in 1..MaxCall, b \in 1..MaxCall}

\* Reference prices handed to generateMockOrderbook directly.
ReferencePrices == {50000, 2450}

\* Venue names handed to the generator.
VenueNames == Venue \cup {"Mock"}

\* Symbols looked up in basePrices.
SymbolNames == {"BTC-USD", "ETH-USDT", "SOL-USD"}

\* Timings of an order: those of the form, and others.
Timings == {Immediate, <<"5", "s">>, <<"1", "0", "s">>, <<"3", "0", "s">>,
            <<"1", "m">>, <<"6", "0">>, <<"f", "a", "s", "t">>}

\* Orders handed to the estimator.
SimulatedOrders ==
    {[quantity |-> q, price |-> p, timing |-> t] :
        q \in {0, 1, 4, 6, 100, 125, 200, 301, 900, 1000}, p \in {0, 1, 100, 43000}, t \in Timings}

Pending(fn, args) == [fn |-> fn, args |-> args, done |-> FALSE, result |-> NULL]

InitFunctions ==
    /\ venues = OneVenue
    /\ symbol = NoSymbol
    /\ mounted = FALSE
    /\ sockets = <<>>
    /\ websockets = Fresh.websockets
    /\ reconnectTimeouts = Fresh.reconnectTimeouts
    /\ heartbeatIntervals = Fresh.heartbeatIntervals
    /\ orderbooks = Fresh.orderbooks
    /\ connectionStatus = Fresh.connectionStatus
    /\ error = NULL
    /\ closing = 0
    /\ ev = [type |-> "init", ws |-> 0, code |-> 0, afterError |-> FALSE, n |-> 0, did |-> {}, sent |-> <<>>, delay |-> 0]
    /\ sim = NoSim
    /\ \/ \E b \in ReferencePrices, v \in VenueNames, dr \in Draws :
             call = Pending("generateMockOrderbook", [basePrice |-> b, venue |-> v, draws |-> dr])
       \/ \E v \in Venue, s \in SymbolNames, dr \in Draws :
             call = Pending("getMockOrderbookForVenue", [venue |-> v, symbol |-> s, draws |-> dr])
       \/ \E v \in Venue, s \in {"BTC-USD", "ETH-USD", "BTC-USDT", "ETH-USDT"} :
             call = Pending("formatSymbolForVenue", [venue |-> v, symbol |-> s])
       \/ \E o \in SimulatedOrders :
             call = Pending("calculateOrderMetrics", o)

Return(result) ==
    /\ ~call.done
    /\ call' = [call EXCEPT !.done = TRUE, !.result = result]
    /\ UNCHANGED <<venues, symbol, mounted, sockets, websockets, reconnectTimeouts,
                   heartbeatIntervals, orderbooks, connectionStatus, error, closing, ev, sim>>

Generate ==
    /\ call.fn = "generateMockOrderbook"
    /\ Return(generateMockOrderbook(call.args.basePrice, call.args.venue, call.args.draws, 0))

GetMock ==
    /\ call.fn = "getMockOrderbookForVenue"
    /\ Return(getMockOrderbookForVenue(call.args.venue, call.args.symbol, call.args.draws))

FormatSymbol ==
    /\ call.fn = "formatSymbolForVenue"
    /\ Return(formatSymbolForVenue(call.args.venue, Chars(call.args.symbol)))

CalculateMetrics ==
    /\ call.fn = "calculateOrderMetrics"
    /\ Return(calculateOrderMetrics(call.args))

NextFunctions == Generate \/ GetMock \/ FormatSymbol \/ CalculateMetrics

SpecFunctions == InitFunctions /\ [][NextFunctions]_vars

----------------------------------------------------------------------------
(* The simulation hook (useOrderSimulation) and the order form              *)
(* Quantities and prices are whole numbers; the clock counts milliseconds.  *)

\* null
JNull == [t |-> "null", s |-> <<>>, n |-> 0]

Min(a, b) == IF a <= b THEN a ELSE b

\* Mutant of OrZero: a missing price becomes 1.
OrOne(x) == IF x.t = "num" THEN x.n ELSE 1

\* x || 0 of a number, null, NaN or undefined
OrZero(x) == IF x.t = "num" THEN x.n ELSE 0

\* Math.min(delay, 1000): the cap of the awaited delay.
DelayCap == 1000

\* delays[orderData.timing] || 0
delayOf(timing) ==
    IF timing.t # "str" THEN 0
    ELSE CASE timing.s = <<"5", "s">> -> 5000
           [] timing.s = <<"1", "0", "s">> -> 10000
           [] timing.s = <<"3", "0", "s">> -> 30000
           [] OTHER -> 0

\* simulateOrder from the construction of simulatedOrder on: the part that
\* runs at once when there is no delay, and after the timer otherwise.
\* calculateOrderMetrics calls order.timing.replace unless the timing is
\* "immediate": a TypeError when the timing is not a string, which rejects
\* the promise before setOrderMetrics.
simulateOrderResume(s, orderData) ==
    LET simulatedOrder ==
            [id |-> <<"s", "i", "m", "-">> \o NumberToString(s.now),
             price |-> OrZero(orderData.price),
             quantity |-> orderData.quantity.n,
             timing |-> orderData.timing,
             timestamp |-> s.now]
    IN  IF simulatedOrder.timing.t # "str" THEN [s EXCEPT !.settled = "rejected"]
        ELSE [s EXCEPT !.orderMetrics =
                           calculateOrderMetrics([quantity |-> simulatedOrder.quantity,
                                                  price |-> simulatedOrder.price,
                                                  timing |-> simulatedOrder.timing.s]),
                       !.orders = Append(@, simulatedOrder),
                       !.settled = "fulfilled"]

\* simulateOrder(orderData) up to its await.
simulateOrder(s, orderData) ==
    LET delay == delayOf(orderData.timing)
        s1 == [s EXCEPT !.calls = @ + 1, !.latest = orderData, !.settled = "none"]
    IN  IF delay > 0
        THEN [s1 EXCEPT !.waiting = Append(@, [orderData |-> orderData, call |-> s1.calls,
                                               due |-> s.now + Min(delay, DelayCap)])]
        ELSE simulateOrderResume(s1, orderData)

\* The state of the order form: the texts of the number inputs (a number
\* input holds a valid number or nothing; neither input has a minimum), the
\* order type and the timing of the select.
Forms ==
    [orderType : {"market", "limit"}, price : {<<>>, <<"1", "0", "0">>},
     quantity : {<<>>, <<"1">>, <<"-", "5">>},
     timing : {Immediate, <<"3", "0", "s">>}]

\* const isFormValid = quantity && (orderType === "market" || price)
isFormValid(form) == form.quantity # <<>> /\ (form.orderType = "market" \/ form.price # <<>>)

\* The order request handleSubmit passes on.
handleSubmit(form) ==
    [price |-> IF form.orderType = "limit" THEN parseFloat(JStr(form.price)) ELSE JNull,
     quantity |-> parseFloat(JStr(form.quantity)),
     timing |-> JStr(form.timing)]

\* The order requests of the other callers of simulateOrder (orderData: any):
\* the timing comparison passes each of the four timings with the reference
\* price, in one task; a request may come without a timing.
OrderRequests ==
    {[price |-> JNum(50000), quantity |-> JNum(1), timing |-> t] :
        t \in {JStr(Immediate), JStr(<<"5", "s">>), JStr(<<"1", "0", "s">>), JStr(<<"3", "0", "s">>),
               Undefined}}

InitSimulation == InitWith(OneVenue)

UnchangedSupervisor ==
    UNCHANGED <<venues, symbol, mounted, sockets, websockets, reconnectTimeouts,
                heartbeatIntervals, orderbooks, connectionStatus, error, closing, ev, call>>

\* The form is submitted: the button is enabled when the form is valid and
\* its previous simulation has ended.
Submit(form) ==
    /\ sim.calls < MaxSim
    /\ isFormValid(form)
    /\ sim.isSimulating = 0
    /\ LET s == simulateOrder(sim, handleSubmit(form))
       IN  sim' = [s EXCEPT !.isSimulating = IF s.waiting # sim.waiting THEN s.calls ELSE 0]
    /\ UnchangedSupervisor

\* Another caller starts a simulation.
Simulate(orderData) ==
    /\ sim.calls < MaxSim
    /\ sim' = simulateOrder(sim, orderData)
    /\ UnchangedSupervisor

\* The timer of the oldest waiting simulation fires (all timers have the
\* same delay, so they fire in the order they were set).
TimerFires ==
    /\ sim.waiting # <<>>
    /\ Head(sim.waiting).due <= sim.now
    /\ LET first == Head(sim.waiting)
           s == simulateOrderResume([sim EXCEPT !.waiting = Tail(@)], first.orderData)
       IN  sim' = [s EXCEPT !.isSimulating = IF @ = first.call THEN 0 ELSE @]
    /\ UnchangedSupervisor

\* The clock advances by half a capped delay.
Tick ==
    /\ sim.now < MaxTicks * (DelayCap \div 2)
    /\ sim' = [sim EXCEPT !.now = @ + DelayCap \div 2, !.settled = "none"]
    /\ UnchangedSupervisor

NextSimulation ==
    \/ \E form \in Forms : Submit(form)
    \/ \E orderData \in OrderRequests : Simulate(orderData)
    \/ TimerFires
    \/ Tick

SpecSimulation == InitSimulation /\ [][NextSimulation]_vars

\* Simulations of one hook instance in the orders specification.
MaxOrders == 2

\* Order requests with and without a price (orderData: any): the price of a
\* market order is null (the form), absent or 0.
PricedRequests ==
    {[price |-> p, quantity |-> JNum(q), timing |-> JStr(t)] :
        p \in {JNull, Undefined, JNum(0), JNum(100)}, q \in {1, 200},
        t \in {Immediate, <<"3", "0", "s">>}}

\* The hook under requests with and without a price.
NextOrders ==
    /\ \/ \E orderData \in PricedRequests : Simulate(orderData)
       \/ TimerFires
       \/ Tick
    /\ sim'.calls <= MaxOrders

SpecOrders == InitSimulation /\ [][NextOrders]_vars

----------------------------------------------------------------------------
(* The timing comparison of the page (handleTimingComparison)               *)

\* Simulations of one hook instance in the comparison specification.
MaxCompareCalls == 5

\* const timings = timingOptions.map((t) => t.value)
ComparedTimings == <<Immediate, <<"5", "s">>, <<"1", "0", "s">>, <<"3", "0", "s">>>>

\* The order of the comparison for one timing: the reference price of a
\* page without a book, and one unit of quantity.
comparisonOrder(timing) ==
    [price |-> JNum(50000), quantity |-> JNum(1), timing |-> JStr(timing)]

\* The object built from Math.random() when orderMetrics is null, for the
\* draw r in tenths.
randomMetrics(timing, r) ==
    [fillPercentage |-> r * 1000, marketImpact |-> r * 200, slippage |-> r * 10000,
     estimatedFillTime |-> IF timing = Immediate THEN <<"<", "1", "s">>
                           ELSE NumberToString((r * 30) \div 10 + 1) \o <<"s">>,
     warnings |-> <<>>]

\* return orderMetrics || { ... }: what the element of a timing resolves to
\* once its simulation has completed. orderMetrics is the constant of the
\* render that created the handler.
elementResult(orderMetrics, timing, r) ==
    IF orderMetrics # NULL THEN orderMetrics ELSE randomMetrics(timing, r)

\* timings.map(async (timing) => ...) up to the first await of each element:
\* simulateOrder is called for every timing in turn.
RECURSIVE startSimulations(_, _)
startSimulations(s, timings) ==
    IF timings = <<>> THEN s
    ELSE startSimulations(simulateOrder(s, comparisonOrder(Head(timings))), Tail(timings))

\* handleTimingComparison(timings) up to its await: the pending call with
\* the results of the elements that have completed.
handleTimingComparison(s, timings, r) ==
    [fn |-> "handleTimingComparison",
     args |-> [timings |-> timings, first |-> s.calls + 1, orderMetrics |-> s.orderMetrics,
               random |-> r],
     done |-> FALSE,
     result |-> [i \in 1..Len(timings) |->
                    IF delayOf(JStr(timings[i])) = 0
                    THEN elementResult(s.orderMetrics, timings[i], r) ELSE NULL]]

\* The comparison is started: its button is enabled while no comparison is
\* pending.
CompareTimings(r) ==
    /\ call.fn = "handleTimingComparison" => call.done
    /\ sim.calls + Len(ComparedTimings) <= MaxCompareCalls
    /\ sim' = startSimulations(sim, ComparedTimings)
    /\ call' = handleTimingComparison(sim, ComparedTimings, r)
    /\ UNCHANGED <<venues, symbol, mounted, sockets, websockets, reconnectTimeouts,
                   heartbeatIntervals, orderbooks, connectionStatus, error, closing, ev>>

\* The timer of the oldest waiting simulation fires on a page with a
\* comparison: when the simulation is one of the comparison, its element
\* resolves, and with the last element Promise.all and the comparison.
TimerFiresCompared ==
    /\ sim.waiting # <<>>
    /\ Head(sim.waiting).due <= sim.now
    /\ LET first == Head(sim.waiting)
           s == simulateOrderResume([sim EXCEPT !.waiting = Tail(@)], first.orderData)
           i == first.call - call.args.first + 1
       IN  /\ sim' = [s EXCEPT !.isSimulating = IF @ = first.call THEN 0 ELSE @]
           /\ IF call.fn = "handleTimingComparison" /\ ~call.done
                  /\ i \in 1..Len(call.args.timings)
              THEN \E result \in {[call.result EXCEPT
                                      ![i] = elementResult(call.args.orderMetrics,
                                                           call.args.timings[i],
                                                           call.args.random)]} :
                      call' = [call EXCEPT !.result = result,
                                           !.done = \A j \in DOMAIN result : result[j] # NULL]
              ELSE call' = call
    /\ UNCHANGED <<venues, symbol, mounted, sockets, websockets, reconnectTimeouts,
                   heartbeatIntervals, orderbooks, connectionStatus, error, closing, ev>>

NextComparison ==
    /\ \/ \E orderData \in OrderRequests : Simulate(orderData)
       \/ \E r \in {0, 5, 9} : CompareTimings(r)
       \/ TimerFiresCompared
       \/ Tick
    /\ sim'.calls <= MaxCompareCalls

SpecComparison == InitSimulation /\ [][NextComparison]_vars

----------------------------------------------------------------------------
(* Vocabulary of the properties *)

KeyOf(w) == Key(sockets[w].venue, sockets[w].symbol)

MockKeyOf(w) == MockKey(sockets[w].venue, sockets[w].symbol)

\* The socket is the current attempt of its key.
Current(w) == websockets[KeyOf(w)] = w

\* The sockets of a venue that are connecting or open.
Live(v) == {w \in Ids : sockets[w].venue = v /\ sockets[w].readyState \in {"CONNECTING", "OPEN"}}

\* The attempts the last step started.
Started == {w \in Ids : w > ev.n}

AbnormalClose == ev.type = "close" /\ ev.code \notin {1000, 1001}

\* A book update was delivered to the message handler.
BookDelivered == call.fn = "delivered" /\ call.category = "book" /\ ev.type = "message"

\* The sides of a book update in the schema of venue v.
BidsOf(v, j) ==
    CASE v = "OKX" -> j.data.book.bids.levels
      [] v = "Bybit" -> j.data.book.b.levels
      [] v = "Deribit" -> j.params.book.bids.levels

AsksOf(v, j) ==
    CASE v = "OKX" -> j.data.book.asks.levels
      [] v = "Bybit" -> j.data.book.a.levels
      [] v = "Deribit" -> j.params.book.asks.levels

\* The numeric value of a price or a size of venue v: what parseFloat makes
\* of the string (OKX, Bybit), the value itself (Deribit).
Numeric(v, x) == IF v = "Deribit" THEN x ELSE parseFloat(x)

\* Positions of the input levels whose numeric price and size are > 0.
Kept(v, in) ==
    {i \in 1..Len(in) : GreaterThanZero(Numeric(v, in[i].p)) /\ GreaterThanZero(Numeric(v, in[i].q))}

\* out is the first Depth levels of in, in input order, among those kept.
FirstKept(v, in, out) ==
    LET keep == Kept(v, in)
    IN  /\ Len(out) = IF Cardinality(keep) < Depth THEN Cardinality(keep) ELSE Depth
        /\ \A k \in 1..Len(out) :
              \E i \in keep :
                 /\ Cardinality({j \in keep : j <= i}) = k
                 /\ out[k] = <<Numeric(v, in[i].p), Numeric(v, in[i].q)>>

\* The price of a stored level as a number.
PriceOf(l) == ToNumber(l[1]).n

StrictlyDescending(ls) == \A i \in 1..(Len(ls) - 1) : PriceOf(ls[i]) > PriceOf(ls[i + 1])

StrictlyAscending(ls) == \A i \in 1..(Len(ls) - 1) : PriceOf(ls[i]) < PriceOf(ls[i + 1])

\* A call of the function has returned.
HasReturned(fn) == call.fn = fn /\ call.done

\* The generator has returned a book, called directly or through
\* getMockOrderbookForVenue.
Generated == HasReturned("generateMockOrderbook") \/ HasReturned("getMockOrderbookForVenue")

\* The reference price of the call of the generator.
ReferencePrice ==
    IF call.fn = "generateMockOrderbook" THEN call.args.basePrice
    ELSE adjustedPrice(call.args.symbol, call.args.draws)

\* Levels of a generated book whose prices fall, and rise, from each level
\* to the next.
Falling(ls) == \A i \in 1..(Len(ls) - 1) : ls[i][1] > ls[i + 1][1]

Rising(ls) == \A i \in 1..(Len(ls) - 1) : ls[i][1] < ls[i + 1][1]

\* "BTC" of "BTC-USD" and of "BTC-USDT".
BaseOf(s) == IF s \in {"BTC-USD", "BTC-USDT"} THEN <<"B", "T", "C">> ELSE <<"E", "T", "H">>

----------------------------------------------------------------------------
(* Claims *)

\* C1: once the connect timeout of the key's current attempt has fired with
\* the transport not open (its synthetic-refresh timer is armed), and until
\* the key is activated again or torn down, the venue's status is
\* "connected", its Store entry is a synthetic Orderbook and the 2s timer is
\* registered for the key.
C1_TimeoutFallbackStaysConnected ==
    \A w \in Ids :
        (sockets[w].mock /\ Current(w)) =>
            /\ connectionStatus[sockets[w].venue] = "connected"
            /\ orderbooks[sockets[w].venue] = SyntheticBook(sockets[w].venue, sockets[w].symbol)
            /\ reconnectTimeouts[MockKeyOf(w)] = w

\* C2: under fair timers, a venue that stays activated (and whose attempts
\* are not cut off by the exploration bound) eventually has a non-null Store
\* entry, whatever the transport does.
C2_NeverBlankForever ==
    \A v \in Venue :
        <>[](mounted /\ v \in VenueSet /\ Len(sockets) < MaxWs) => <>(orderbooks[v] # NULL)

\* C3: a close event with a code other than 1000/1001 arms the one reconnect
\* timer of that socket and registers it for the key, and when a reconnect
\* timer fires it is spent and exactly one new attempt, for the same key,
\* starts; a close event with code 1000 or 1001 arms no reconnect timer and
\* leaves the status "disconnected".
C3_ReconnectOnClose ==
    /\ AbnormalClose =>
          /\ sockets[ev.ws].rc
          /\ reconnectTimeouts[KeyOf(ev.ws)] = ev.ws
    /\ (ev.type = "close" /\ ev.code \in {1000, 1001}) =>
          /\ ~sockets[ev.ws].rc
          /\ reconnectTimeouts[KeyOf(ev.ws)] # ev.ws
          /\ connectionStatus[sockets[ev.ws].venue] = "disconnected"
    /\ ev.type = "reconnect" =>
          /\ ~sockets[ev.ws].rc
          /\ Len(sockets) = ev.n + 1
          /\ KeyOf(Len(sockets)) = KeyOf(ev.ws)

\* C3 witness: a reconnect timer armed by an abnormal close has fired and the
\* new attempt of the key is connecting.
C3_Witness ==
    /\ ev.type = "reconnect"
    /\ sockets[Len(sockets)].readyState = "CONNECTING"
    /\ sockets[ev.ws].readyState = "CLOSED"

\* C4: after a close with a code other than 1000/1001 the status is "error"
\* while the reconnect timer is pending, and "connecting" when it has fired.
C4_ErrorUntilReconnect ==
    /\ \A w \in Ids : sockets[w].rc => connectionStatus[sockets[w].venue] = "error"
    /\ (ev.type = "reconnect" /\ sockets[Len(sockets)].readyState # "NONE") =>
          connectionStatus[sockets[ev.ws].venue] = "connecting"

\* C5: after the error event of a transport the venue's status is "error"
\* and the error field holds a message, the close event of that transport is
\* what follows, and after that close event the reconnect timer of the key
\* is armed.
C5_ErrorEvent ==
    /\ ev.type = "error" =>
          /\ connectionStatus[sockets[ev.ws].venue] = "error"
          /\ error = ConnectionFailedMessage(sockets[ev.ws].venue)
          /\ error # NULL
          /\ closing = ev.ws
    /\ closing # 0 => (ev.type = "error" /\ ev.ws = closing)
    /\ (ev.type = "close" /\ ev.afterError) =>
          /\ sockets[ev.ws].rc
          /\ reconnectTimeouts[KeyOf(ev.ws)] = ev.ws

\* C5 witness: the close event that followed an error event has armed the
\* reconnect timer while the error message is still shown.
C5_Witness ==
    /\ ev.type = "close" /\ ev.afterError
    /\ sockets[ev.ws].rc
    /\ error # NULL

\* C6: an activation in which constructing the transport threw ends with
\* the venue's status "error" and a synthetic Orderbook in its Store entry.
C6_ConstructionFailureFallsBack ==
    \A w \in Started :
        sockets[w].readyState = "NONE" =>
            /\ connectionStatus[sockets[w].venue] = "error"
            /\ orderbooks[sockets[w].venue] = SyntheticBook(sockets[w].venue, sockets[w].symbol)

\* C7: immediately after teardown no reconnect, heartbeat or
\* synthetic-refresh timer of any attempt is armed and no transport is open
\* or connecting.
C7_TeardownReleasesEverything ==
    ev.type = "unmount" =>
        \A w \in Ids :
            /\ ~sockets[w].rc /\ ~sockets[w].hb /\ ~sockets[w].mock
            /\ sockets[w].readyState \notin {"OPEN", "CONNECTING"}

\* C8: while the view is mounted, a timer or transport callback of a
\* connection for another symbol than the active one writes no Store entry,
\* changes no status and starts no connection attempt.
C8_SupersededKeySilent ==
    (mounted /\ ev.ws # 0 /\ sockets[ev.ws].symbol # symbol) =>
        ev.did \cap {"store", "status", "connect"} = {}

\* C9: each venue has at most one transport that is connecting or open.
C9_SingleWriterPerVenue ==
    mounted => \A v \in Venue : Cardinality(Live(v)) <= 1

\* C10: while a transport of a venue is open, no synthetic-refresh timer of
\* that venue is armed and its Store entry is not a synthetic Orderbook
\* written by the last step.
C10_NoSyntheticWhileOpen ==
    \A w \in Ids :
        sockets[w].readyState = "OPEN" =>
            /\ \A u \in Ids : sockets[u].venue = sockets[w].venue => ~sockets[u].mock
            /\ ~(/\ ev.ws # 0
                 /\ sockets[ev.ws].venue = sockets[w].venue
                 /\ ev.type \in {"connectTimeout", "mockTick"}
                 /\ "store" \in ev.did)

\* C11: the open event of an attempt cancels its connect timeout, which is
\* never armed again (so its fallback cannot fire later), sets the status
\* "connected", calls ws.send once, with the subscribe message, and leaves
\* exactly one heartbeat timer armed for the key, registered for it, also
\* when the send threw; a heartbeat timer exists only for a transport whose
\* open handler has run, so no ping precedes the subscribe message.
C11_OpenTransition ==
    /\ [](ev.type = "open" =>
            /\ ~sockets[ev.ws].ct
            /\ connectionStatus[sockets[ev.ws].venue] = "connected"
            /\ Len(ev.sent) = 1 /\ ev.sent[1].msg = "subscribe"
            /\ {u \in Ids : KeyOf(u) = KeyOf(ev.ws) /\ sockets[u].hb} = {ev.ws}
            /\ heartbeatIntervals[KeyOf(ev.ws)] = ev.ws)
    /\ [](\A w \in Ids :
            /\ sockets[w].readyState = "OPEN" => ~sockets[w].ct
            /\ sockets[w].hb => sockets[w].readyState \notin {"CONNECTING", "NONE"})
    /\ [][\A w \in Ids : ~sockets[w].ct => ~sockets'[w].ct]_vars

\* C11 witness: a transport has opened, the send of the subscribe message
\* threw and the heartbeat timer of the key is armed.
C11_Witness ==
    /\ ev.type = "open"
    /\ ~ev.sent[1].ok
    /\ sockets[ev.ws].hb
    /\ ~sockets[ev.ws].ct

\* C12: a heartbeat tick calls ws.send at most once, with a ping, and only
\* when the transport is open; a tick that finds the transport not open, or
\* whose send threw, leaves that heartbeat timer cancelled, and a cancelled
\* heartbeat timer is never armed again.
C12_HeartbeatGuard ==
    /\ [](ev.type = "heartbeat" =>
            /\ Len(ev.sent) <= 1
            /\ \A i \in 1..Len(ev.sent) : ev.sent[i].msg = "ping"
            /\ sockets[ev.ws].readyState # "OPEN" => ev.sent = <<>>
            /\ (ev.sent = <<>> \/ ~ev.sent[1].ok) => ~sockets[ev.ws].hb)
    /\ [][\A w \in Ids : (~sockets[w].hb /\ sockets[w].readyState # "CONNECTING")
                            => ~sockets'[w].hb]_vars

\* C12 witness: a tick found the transport not open, sent nothing and its
\* timer is cancelled.
C12_Witness ==
    /\ ev.type = "heartbeat"
    /\ sockets[ev.ws].readyState # "OPEN"
    /\ ev.sent = <<>>
    /\ ~sockets[ev.ws].hb


\* C13: a frame that is non-text, the text "pong", not valid JSON, the
\* subscription acknowledgement of the venue, or JSON that is no book update
\* of the venue leaves the Store, the status map and the error field as
\* they were, and no exception leaves the message handler.
C13_DroppedFramesChangeNothing ==
    [][(call.fn = "onmessage" /\ call.category # "book") =>
          /\ UNCHANGED <<orderbooks, connectionStatus, error>>
          /\ "exception" \notin ev'.did
          /\ "store" \notin ev'.did]_vars

\* JSON null was delivered (reading its properties throws inside the
\* handler) while the Store held a book of an earlier message.
C13_Witness ==
    /\ call.fn = "delivered"
    /\ call.frame = JsonFrame(JsonNull)
    /\ ev.type = "message"
    /\ orderbooks[call.venue].kind = "parsed"


\* C14: for a book update of any venue, each side of the stored book is the
\* first 25, in input order, of the input levels whose numeric price and
\* size are both > 0; so a side has at most 25 levels, all positive.
C14_ParseFilterAndTruncation ==
    BookDelivered =>
        LET ob == orderbooks[call.venue]
        IN  /\ "store" \in ev.did
            /\ ob.kind = "parsed"
            /\ FirstKept(call.venue, BidsOf(call.venue, call.frame.json), ob.bids)
            /\ FirstKept(call.venue, AsksOf(call.venue, call.frame.json), ob.asks)
            /\ Len(ob.bids) <= 25 /\ Len(ob.asks) <= 25
            /\ \A i \in 1..Len(ob.bids) : GreaterThanZero(ob.bids[i][1]) /\ GreaterThanZero(ob.bids[i][2])
            /\ \A i \in 1..Len(ob.asks) : GreaterThanZero(ob.asks[i][1]) /\ GreaterThanZero(ob.asks[i][2])

\* A side of more than 25 levels with a level among the first 25 that is
\* not positive and more than 25 that are: the stored side has 25 levels
\* and ends beyond input position 25.
C14_Witness ==
    /\ BookDelivered
    /\ LET in == BidsOf(call.venue, call.frame.json)
           keep == Kept(call.venue, in)
       IN  /\ Len(in) > 25
           /\ Cardinality(keep) > 25
           /\ \E i \in 1..25 : i \notin keep
           /\ Len(orderbooks[call.venue].bids) = 25

\* C15: every book the message handler writes to the Store has bids
\* strictly descending by price and asks strictly ascending by price.
C15_ParsedBooksOrdered ==
    \A v \in Venue :
        orderbooks[v].kind = "parsed" =>
            /\ StrictlyDescending(orderbooks[v].bids)
            /\ StrictlyAscending(orderbooks[v].asks)


\* C16: every book the synthetic generator returns has exactly 25 bids
\* strictly descending by price and 25 asks strictly ascending by price,
\* with every price and every size > 0, whatever the reference price, the
\* venue and the random draws.
C16_GeneratedBooksWellFormed ==
    Generated =>
        /\ Len(call.result.bids) = 25 /\ Len(call.result.asks) = 25
        /\ Falling(call.result.bids)
        /\ Rising(call.result.asks)
        /\ \A i \in 1..25 : call.result.bids[i][1] > 0 /\ call.result.bids[i][2] > 0
        /\ \A i \in 1..25 : call.result.asks[i][1] > 0 /\ call.result.asks[i][2] > 0

\* C17: in every book the generator returns, the best bid is below the
\* reference price times the bias factor of the venue, and the best ask is
\* above it, whatever the random draws.
C17_GeneratedBooksNotCrossed ==
    Generated =>
        /\ call.result.bids[1][1] < ReferencePrice * venueMultiplier(call.args.venue)
        /\ ReferencePrice * venueMultiplier(call.args.venue) < call.result.asks[1][1]

\* A book for Bybit (bias 1.001) from draws that are not all the same and
\* in which the level generated first is not the best bid.
C17_Witness ==
    /\ HasReturned("getMockOrderbookForVenue")
    /\ call.args.venue = "Bybit"
    /\ call.args.draws.at # {}
    /\ call.result.bids[1][1] >
          ReferencePrice * venueMultiplier("Bybit") - priceOffset(0, Random(call.args.draws, 2))

\* C18: "BTC-USD" becomes "BTC-USDT" for OKX, "BTCUSDT" for Bybit and
\* "BTC-PERPETUAL" for Deribit, and "ETH-USD" becomes "ETH-USDT", "ETHUSDT"
\* and "ETH-PERPETUAL".
C18_SymbolTranslation ==
    (HasReturned("formatSymbolForVenue") /\ call.args.symbol \in {"BTC-USD", "ETH-USD"}) =>
        call.result =
            CASE call.args.venue = "OKX" /\ call.args.symbol = "BTC-USD" ->
                   <<"B", "T", "C", "-", "U", "S", "D", "T">>
              [] call.args.venue = "Bybit" /\ call.args.symbol = "BTC-USD" ->
                   <<"B", "T", "C", "U", "S", "D", "T">>
              [] call.args.venue = "Deribit" /\ call.args.symbol = "BTC-USD" ->
                   <<"B", "T", "C", "-", "P", "E", "R", "P", "E", "T", "U", "A", "L">>
              [] call.args.venue = "OKX" /\ call.args.symbol = "ETH-USD" ->
                   <<"E", "T", "H", "-", "U", "S", "D", "T">>
              [] call.args.venue = "Bybit" /\ call.args.symbol = "ETH-USD" ->
                   <<"E", "T", "H", "U", "S", "D", "T">>
              [] call.args.venue = "Deribit" /\ call.args.symbol = "ETH-USD" ->
                   <<"E", "T", "H", "-", "P", "E", "R", "P", "E", "T", "U", "A", "L">>

\* "BTC-USD" was translated for Bybit.
C18_Witness ==
    /\ HasReturned("formatSymbolForVenue")
    /\ call.args.venue = "Bybit" /\ call.args.symbol = "BTC-USD"
    /\ call.result = <<"B", "T", "C", "U", "S", "D", "T">>

\* C19: for every symbol of type Symbol, "BTC-USDT" and "ETH-USDT"
\* included, the OKX result is "<base>-USDT" and the Bybit result is
\* "<base>USDT" (and the Deribit result "<base>-PERPETUAL"), the instrument
\* of the symbol's USD counterpart.
C19_TranslationReplacesTrailingQuote ==
    HasReturned("formatSymbolForVenue") =>
        call.result =
            CASE call.args.venue = "OKX" -> BaseOf(call.args.symbol) \o <<"-", "U", "S", "D", "T">>
              [] call.args.venue = "Bybit" -> BaseOf(call.args.symbol) \o <<"U", "S", "D", "T">>
              [] call.args.venue = "Deribit" ->
                   BaseOf(call.args.symbol) \o <<"-", "P", "E", "R", "P", "E", "T", "U", "A", "L">>

\* C20: marketImpact = quantity * 0.01 * m with m = 1.2 for immediate, 1.0
\* for 5s, 0.9 for 10s, 0.8 for 30s and 1.0 for any other timing;
\* fillPercentage = max(20, 100 - marketImpact * 10); slippage =
\* marketImpact * price * 0.1; estimatedFillTime is "<1s" for immediate
\* and the timing label otherwise.
C20_EstimatorFormulas ==
    HasReturned("calculateOrderMetrics") =>
        LET order == call.args
            m == IF order.timing = Immediate THEN 12
                 ELSE IF order.timing = <<"1", "0", "s">> THEN 9
                 ELSE IF order.timing = <<"3", "0", "s">> THEN 8
                 ELSE 10
            hundred == 10000
            twenty == 2000
        IN  /\ call.result.marketImpact = order.quantity * m
            /\ call.result.fillPercentage =
                  IF hundred - call.result.marketImpact > twenty
                  THEN hundred - call.result.marketImpact ELSE twenty
            /\ call.result.slippage = call.result.marketImpact * order.price
            /\ call.result.estimatedFillTime =
                  IF order.timing = Immediate THEN <<"<", "1", "s">> ELSE order.timing


\* C21 (as stated): for quantity 1, price 100 and timing "immediate" the
\* estimator returns marketImpact 0.012, fillPercentage 98.8, slippage 0.12
\* and no warnings.
C21_WorkedExampleAsStated ==
    (HasReturned("calculateOrderMetrics")
        /\ call.args.quantity = 1 /\ call.args.price = 100 /\ call.args.timing = Immediate) =>
        /\ call.result.marketImpact = 12
        /\ call.result.fillPercentage = 9880
        /\ call.result.slippage = 1200
        /\ call.result.warnings = <<>>

\* C21 (amended): for quantity 1, price 100 and timing "immediate" the
\* estimator returns marketImpact 0.012, fillPercentage 99.88 (100 minus
\* ten times 0.012), slippage 0.12 and no warnings.
C21_WorkedExample ==
    (HasReturned("calculateOrderMetrics")
        /\ call.args.quantity = 1 /\ call.args.price = 100 /\ call.args.timing = Immediate) =>
        /\ call.result.marketImpact = 12
        /\ call.result.fillPercentage = 9988
        /\ call.result.slippage = 1200
        /\ call.result.warnings = <<>>

\* The estimator has returned for the order of the example.
C21_Witness ==
    /\ HasReturned("calculateOrderMetrics")
    /\ call.args.quantity = 1 /\ call.args.price = 100 /\ call.args.timing = Immediate
    /\ call.result.fillPercentage = 9988

\* C22: the warnings are exactly those of the four messages whose condition
\* holds on the computed values (marketImpact > 1.5; slippage > price *
\* 0.005; fillPercentage < 70; timing not immediate and marketImpact > 1.0),
\* each at most once and in that order; quantity 200 with timing immediate
\* yields "High market impact detected" and no "Low fill probability".
C22_WarningsList ==
    HasReturned("calculateOrderMetrics") =>
        LET r == call.result
            ws == r.warnings
            holds == [i \in 1..4 |->
                        CASE i = 1 -> r.marketImpact > 1500
                          [] i = 2 -> r.slippage > call.args.price * 50
                          [] i = 3 -> r.fillPercentage < 7000
                          [] i = 4 -> call.args.timing # Immediate /\ r.marketImpact > 1000]
            message == <<"High market impact detected", "Significant slippage expected",
                         "Low fill probability", "Consider immediate execution to reduce impact">>
            at(i) == {k \in 1..Len(ws) : ws[k] = message[i]}
        IN  /\ \A k \in 1..Len(ws) : \E i \in 1..4 : ws[k] = message[i]
            /\ \A i \in 1..4 : Cardinality(at(i)) = IF holds[i] THEN 1 ELSE 0
            /\ \A i, j \in 1..4 : \A k \in at(i), l \in at(j) : i < j => k < l
            /\ (call.args.quantity = 200 /\ call.args.timing = Immediate) =>
                  /\ at(1) # {}
                  /\ at(3) = {}

\* The estimator has returned for quantity 200 with timing immediate, with
\* the warning of a high impact and without the one of a low fill.
C22_Witness ==
    /\ HasReturned("calculateOrderMetrics")
    /\ call.args.quantity = 200 /\ call.args.timing = Immediate /\ call.args.price = 100
    /\ call.result.warnings = <<"High market impact detected", "Significant slippage expected">>


\* The metrics of the simulation an order request asks for.
MetricsOf(orderData) ==
    calculateOrderMetrics([quantity |-> orderData.quantity.n, price |-> OrZero(orderData.price),
                           timing |-> orderData.timing.s])

\* C23: every OrderMetrics value that simulateOrder stores in orderMetrics
\* has a fillPercentage from 20 to 100, a marketImpact of at least 0 and a
\* slippage of at least 0, whatever the order request.
C23_MetricRanges ==
    sim.orderMetrics # NULL =>
        /\ 2000 <= sim.orderMetrics.fillPercentage
        /\ sim.orderMetrics.fillPercentage <= 10000
        /\ sim.orderMetrics.marketImpact >= 0
        /\ sim.orderMetrics.slippage >= 0

\* C26: no operation lets an exception escape or returns a rejected
\* promise: no handler of the connection ends with an exception, and no call
\* of simulateOrder ends with a rejected promise, whatever the order request.
C26_NothingEscapes ==
    /\ "exception" \notin ev.did
    /\ sim.settled # "rejected"

\* C28: any two orders simulateOrder has produced have different ids, also
\* when their simulations completed at the same clock value.
C28_UniqueOrderIds ==
    \A i, j \in 1..Len(sim.orders) : i # j => sim.orders[i].id # sim.orders[j].id

\* C29: once no simulation is in flight, orderMetrics holds the metrics of
\* the most recently requested simulation, also when simulations of
\* different timings overlapped.
C29_OrderMetricsMostRecent ==
    (sim.calls > 0 /\ sim.waiting = <<>> /\ sim.latest.timing.t = "str") =>
        sim.orderMetrics = MetricsOf(sim.latest)


\* The registries hold no transport and no timer.
EmptyRegistries ==
    /\ \A k \in Keys : websockets[k] = 0 /\ heartbeatIntervals[k] = 0
    /\ \A k \in Keys \cup MockKeys : reconnectTimeouts[k] = 0

\* What the registries hold is spent: no transport of the registry is
\* connecting or open and no timer of the registries is armed.
NothingActive ==
    /\ \A k \in Keys : websockets[k] # 0 =>
            sockets[websockets[k]].readyState \notin {"CONNECTING", "OPEN"}
    /\ \A k \in Keys : heartbeatIntervals[k] # 0 => ~sockets[heartbeatIntervals[k]].hb
    /\ \A k \in Keys : reconnectTimeouts[k] # 0 => ~sockets[reconnectTimeouts[k]].rc
    /\ \A k \in MockKeys : reconnectTimeouts[k] # 0 => ~sockets[reconnectTimeouts[k]].mock

\* C27: in every state the teardown ends without an exception; run on
\* registries that hold nothing it changes nothing at all, run on registries
\* that hold nothing active it changes no transport, timer, status, Store
\* entry or error; and running it twice in a row leaves the state that
\* running it once leaves.
C27_TeardownIdempotent ==
    LET once == Cleanup(Cur)
    IN  /\ ~once.threw
        /\ EmptyRegistries => once = Cur
        /\ NothingActive =>
              /\ once.sockets = sockets
              /\ once.orderbooks = orderbooks
              /\ once.connectionStatus = connectionStatus
              /\ once.error = error
        /\ Cleanup(once) = once

\* The teardown has run on a view that had attempts and a venue in the
\* status error, and the registries it left hold nothing.
C27_Witness ==
    /\ ev.type = "unmount"
    /\ Len(sockets) > 0
    /\ EmptyRegistries
    /\ \E v \in Venue : connectionStatus[v] # "disconnected"


\* The attempts of the key of socket w made before it.
PriorAttempts(w) == Cardinality({i \in 1..(w - 1) : KeyOf(i) = KeyOf(w)})

\* The key of socket w was torn down, or the attempts explored are used up.
TornDownOrBound == ~mounted \/ ev.type = "symbolChange" \/ Len(sockets) >= MaxRcWs

C25_ExponentialBackoff ==
    (AbnormalClose /\ PriorAttempts(ev.ws) > 0) => ev.delay > ReconnectDelay


\* The events of the connection of one venue: the handlers of a socket, its
\* timers and the activation its reconnect timeout makes.
VenueEvents ==
    {"open", "message", "error", "close", "connectTimeout", "mockTick", "heartbeat", "reconnect"}

\* The status and the Store entry of every venue but v are the same in st
\* as in the current state.
OthersUntouched(st, v) ==
    \A u \in Venue \ {v} :
        /\ st.connectionStatus[u] = connectionStatus[u]
        /\ st.orderbooks[u] = orderbooks[u]

\* C30: a step that is an event of the connection of venue v (open, message,
\* error, close, connect timeout, synthetic refresh, heartbeat, the
\* activation of a reconnection) leaves the status and the Store entry of
\* every other venue unchanged, and so does an activation of v in any state
\* of the mounted hook.
C30_VenueIndependence ==
    /\ [][ev'.type \in VenueEvents =>
            \A u \in Venue \ {sockets[ev'.ws].venue} :
                /\ connectionStatus'[u] = connectionStatus[u]
                /\ orderbooks'[u] = orderbooks[u]]_vars
    /\ [](mounted => \A v \in Venue, throws \in BOOLEAN :
                        OthersUntouched(connectToVenue(Cur, v, symbol, throws), v))

\* A transport of Bybit closed while Deribit is connected and has a book:
\* Bybit is disconnected, Deribit is as it was.
C30_Witness ==
    /\ ev.type = "close"
    /\ sockets[ev.ws].venue = "Bybit"
    /\ connectionStatus["Bybit"] = "disconnected"
    /\ connectionStatus["Deribit"] = "connected"
    /\ orderbooks["Deribit"] # NULL


\* The attempts of key k.
OfKey(k) == {w \in Ids : KeyOf(w) = k}

\* C31: at most one synthetic-refresh interval is armed for a key, and every
\* armed one is the handle the registry holds for its key, so that the
\* teardown cancels it.
C31_OneMockTimerPerKey ==
    /\ \A k \in Keys : Cardinality({w \in OfKey(k) : sockets[w].mock}) <= 1
    /\ \A w \in Ids : sockets[w].mock => reconnectTimeouts[MockKeyOf(w)] = w

\* C32: at most one connect timeout is pending for a key, and a connect
\* timeout that triggers the synthetic fallback is the one of the current
\* attempt of its key, which was still connecting (the call of close() the
\* callback makes has left it failing): never the one of an attempt that
\* closed, failed or was replaced.
C32_ConnectTimeoutOfItsAttempt ==
    /\ \A k \in Keys : Cardinality({w \in OfKey(k) : sockets[w].ct}) <= 1
    /\ (ev.type = "connectTimeout" /\ sockets[ev.ws].mock) =>
          /\ Current(ev.ws)
          /\ sockets[ev.ws].readyState = "CLOSING"
          /\ sockets[ev.ws].failed

\* C33: at most one heartbeat interval and at most one reconnect timeout
\* are armed for a key; an open event arms the heartbeat of the current
\* transport of the key only, the close event of a transport leaves its
\* heartbeat cancelled, and a close event that arms the reconnect timeout
\* finds no transport of the key connecting or open.
C33_OneHeartbeatOneReconnectPerKey ==
    /\ \A k \in Keys : Cardinality({w \in OfKey(k) : sockets[w].hb}) <= 1
    /\ \A k \in Keys : Cardinality({w \in OfKey(k) : sockets[w].rc}) <= 1
    /\ \A w \in Ids : sockets[w].hb => heartbeatIntervals[KeyOf(w)] = w
    /\ (ev.type = "open" /\ sockets[ev.ws].hb) => Current(ev.ws)
    /\ ev.type = "close" => ~sockets[ev.ws].hb
    /\ AbnormalClose =>
          \A u \in OfKey(KeyOf(ev.ws)) : sockets[u].readyState \notin {"CONNECTING", "OPEN"}

\* C34: whenever the status of some venue is "error", the error field holds
\* a message.
C34_ErrorStatusHasMessage ==
    (\E v \in Venue : connectionStatus[v] = "error") => error # NULL

\* C35: the teardown and the activations of a symbol change leave every
\* Store entry as it is, an entry that holds an Orderbook never becomes null
\* again, and while the view is mounted an entry is only replaced by a parsed
\* update or a synthetic write of the connection for the active symbol.
C35_StoreKeptAcrossSymbolChange ==
    /\ [][ev'.type \in {"symbolChange", "unmount"} => orderbooks' = orderbooks]_vars
    /\ [][\A v \in Venue : orderbooks[v] # NULL => orderbooks'[v] # NULL]_vars
    /\ [][(mounted' /\ orderbooks' # orderbooks) =>
            /\ ev'.type \in {"message", "connectTimeout", "mockTick"}
            /\ sockets[ev'.ws].symbol = symbol']_vars


\* The order request whose simulation completes in the step: the one of the
\* timer that fires, or the one of the call that runs without a delay.
CompletedRequest ==
    IF sim'.calls = sim.calls THEN Head(sim.waiting).orderData ELSE sim'.latest

\* C36: an order whose requested price is absent, null or 0 gives a
\* SimulatedOrder with the price 0 and metrics with the slippage 0, whatever
\* the quantity, and "Significant slippage expected" is not among the
\* warnings.
C36_MarketOrdersNoSlippage ==
    [][(Len(sim'.orders) > Len(sim.orders) /\ CompletedRequest.price \in {JNull, Undefined, JNum(0)}) =>
          /\ sim'.orders[Len(sim'.orders)].price = 0
          /\ sim'.orderMetrics.slippage = 0
          /\ \A i \in 1..Len(sim'.orderMetrics.warnings) :
                 sim'.orderMetrics.warnings[i] # "Significant slippage expected"]_vars

\* A market order of the quantity 200 was simulated at once: its impact is
\* high, its price and its slippage are 0.
C36_Witness ==
    /\ sim.settled = "fulfilled" /\ sim.calls = 1
    /\ sim.latest = [price |-> JNull, quantity |-> JNum(200), timing |-> JStr(Immediate)]
    /\ Len(sim.orders) = 1 /\ sim.orders[1].price = 0 /\ sim.orders[1].quantity = 200
    /\ sim.orderMetrics.slippage = 0
    /\ sim.orderMetrics.marketImpact = 2400
    /\ sim.orderMetrics.warnings = <<"High market impact detected">>

\* The delayed timings of the form.
DelayedTimings == {<<"5", "s">>, <<"1", "0", "s">>, <<"3", "0", "s">>}

\* C37: for a quantity above 0 and a price, the marketImpact of the order
\* with timing immediate is strictly larger than with 5s, 10s or 30s and
\* its fillPercentage is never larger; so an order that gets "Consider
\* immediate execution to reduce impact" has a strictly larger marketImpact
\* with timing immediate.
C37_ImpactDecreasesWithDelay ==
    (HasReturned("calculateOrderMetrics") /\ call.args.timing \in DelayedTimings) =>
        \E immediate \in {calculateOrderMetrics([call.args EXCEPT !.timing = Immediate])} :
            /\ call.args.quantity > 0 =>
                  /\ immediate.marketImpact > call.result.marketImpact
                  /\ immediate.fillPercentage <= call.result.fillPercentage
            /\ (\E i \in 1..Len(call.result.warnings) :
                    call.result.warnings[i] = "Consider immediate execution to reduce impact") =>
                  immediate.marketImpact > call.result.marketImpact

\* The estimator has returned for quantity 125 with timing 5s: the impact
\* is 1.25 and the advice to execute immediately is given.
C37_Witness ==
    /\ HasReturned("calculateOrderMetrics")
    /\ call.args.quantity = 125 /\ call.args.timing = <<"5", "s">> /\ call.args.price = 100
    /\ call.result.marketImpact = 1250
    /\ call.result.warnings =
          <<"Significant slippage expected", "Consider immediate execution to reduce impact">>

\* C38: handleTimingComparison(timings) resolves to the list whose i-th
\* element is the OrderMetrics the estimator computes for the comparison
\* order with the timing timings[i].
C38_ComparisonPerTiming ==
    (call.fn = "handleTimingComparison" /\ call.done) =>
        \A i \in 1..Len(call.args.timings) :
            call.result[i] = MetricsOf(comparisonOrder(call.args.timings[i]))

====
